---- MODULE Spec2Model ----
(***************************************************************************)
(* Change detection engine of NRSH (ai_models/change_detection).           *)
(*                                                                         *)
(* Numbers.  The source computes with Python floats.  The model computes   *)
(* with exact rationals [n, d] in lowest terms (d > 0), so that boundary   *)
(* cases (a score of exactly 0.7, an IoU of exactly 0.3) are decided by    *)
(* the comparison operators of the source and not by rounding.             *)
(***************************************************************************)
EXTENDS Integers, Sequences, FiniteSets, TLC

VARIABLES base_detections, present_detections, pc, changes, error, matched_pairs, ret,
          base_frames, present_frames, base_gps_data, present_gps_data, aligned_pairs,
          run_status, results_file, run_detections, calls, change_threshold, status_writes

\* The state of frame alignment and of an analysis run.
align_vars == <<base_frames, present_frames, base_gps_data, present_gps_data, aligned_pairs>>
run_vars == <<run_status, results_file, run_detections, calls, status_writes>>

vars == <<base_detections, present_detections, pc, changes, error, matched_pairs, ret,
          align_vars, run_vars, change_threshold>>

---------------------------------------------------------------------------
(* Exact rational arithmetic standing for float arithmetic.                *)

Abs(x) == IF x < 0 THEN -x ELSE x

RECURSIVE GCD(_, _)
GCD(a, b) == IF b = 0 THEN a ELSE GCD(b, a % b)

\* The rational n/d (d /= 0) in lowest terms with a positive denominator.
Rat(n, d) ==
    LET g == GCD(Abs(n), Abs(d))
        s == IF d < 0 THEN -1 ELSE 1
    IN  [n |-> s * (n \div g), d |-> s * (d \div g)]

Zero == [n |-> 0, d |-> 1]
One == [n |-> 1, d |-> 1]
Int2Rat(k) == [n |-> k, d |-> 1]

RatNeg(a) == [n |-> -a.n, d |-> a.d]

RatAdd(a, b) ==
    LET g == GCD(a.d, b.d)
        L == (a.d \div g) * b.d
    IN  Rat(a.n * (L \div a.d) + b.n * (L \div b.d), L)

RatSub(a, b) == RatAdd(a, RatNeg(b))

RatMul(a, b) ==
    LET g1 == GCD(Abs(a.n), b.d)
        g2 == GCD(Abs(b.n), a.d)
    IN  IF a.n = 0 \/ b.n = 0 THEN Zero
        ELSE Rat((a.n \div g1) * (b.n \div g2), (a.d \div g2) * (b.d \div g1))

\* a / b for b /= 0.
RatDiv(a, b) == RatMul(a, Rat(b.d, b.n))

\* a < b: the integer parts decide, and the fractional parts when they agree.
RatLt(a, b) ==
    LET fa == a.n \div a.d
        fb == b.n \div b.d
    IN  IF fa /= fb THEN fa < fb
        ELSE (a.n % a.d) * b.d < (b.n % b.d) * a.d

RatGt(a, b) == RatLt(b, a)
RatGe(a, b) == ~RatLt(a, b)
RatLe(a, b) == ~RatLt(b, a)
RatMax(a, b) == IF RatLt(a, b) THEN b ELSE a
RatMin(a, b) == IF RatLt(b, a) THEN b ELSE a

---------------------------------------------------------------------------
(* Values of a detection dict.  A key may be absent, hold None, hold a     *)
(* non-numeric string, or hold a number.                                   *)

Num(r) == [k |-> "num", v |-> r]
Missing == [k |-> "missing", v |-> Zero]
NoneVal == [k |-> "none", v |-> Zero]
BadStr == [k |-> "str", v |-> Zero]

\* The element_type of a dict without that key.
NoType == "<absent>"

\* dict.get(key, default) with a numeric default
Get(value, default) == IF value.k = "missing" THEN Num(default) ELSE value

IsNumber(value) == value.k = "num"

\* _safe_float: None and values float() rejects become 0.0
_safe_float(value) == IF value.k = "num" THEN value.v ELSE Zero

---------------------------------------------------------------------------
(* Program constants                                                       *)

\* iou_threshold: float = 0.3
iou_threshold == Rat(3, 10)

\* config.get("models.change_detection.change_threshold", 0.3): the default
DefaultChangeThreshold == Rat(3, 10)

\* the fixed area policy value of _is_deteriorated
AreaIncreaseThreshold == Rat(3, 10)

\* 1e-6
Epsilon == Rat(1, 1000000)

\* 1280 * 720
FrameArea == Int2Rat(1280 * 720)

ConfWeight == Rat(6, 10)
AreaWeight == Rat(4, 10)
SevereAbove == Rat(7, 10)
ModerateAbove == Rat(4, 10)

---------------------------------------------------------------------------
(* Geometry                                                                *)

MaxI(a, b) == IF a > b THEN a ELSE b
MinI(a, b) == IF a < b THEN a ELSE b

\* A faulty variant of _calculate_iou: the area of bbox1 is counted twice.
_calculate_iouArea1Twice(bbox1, bbox2) ==
    LET x1_i == MaxI(bbox1[1], bbox2[1])
        y1_i == MaxI(bbox1[2], bbox2[2])
        x2_i == MinI(bbox1[3], bbox2[3])
        y2_i == MinI(bbox1[4], bbox2[4])
        intersection == (x2_i - x1_i) * (y2_i - y1_i)
        area1 == (bbox1[3] - bbox1[1]) * (bbox1[4] - bbox1[2])
        union == area1 + area1 - intersection
    IN  IF x2_i < x1_i \/ y2_i < y1_i THEN Zero
        ELSE IF union = 0 THEN Zero
        ELSE Rat(intersection, union)

\* A faulty variant of _calculate_iou: the intersection is not subtracted from
\* the union.
_calculate_iouUnionOfSums(bbox1, bbox2) ==
    LET x1_i == MaxI(bbox1[1], bbox2[1])
        y1_i == MaxI(bbox1[2], bbox2[2])
        x2_i == MinI(bbox1[3], bbox2[3])
        y2_i == MinI(bbox1[4], bbox2[4])
        intersection == (x2_i - x1_i) * (y2_i - y1_i)
        area1 == (bbox1[3] - bbox1[1]) * (bbox1[4] - bbox1[2])
        area2 == (bbox2[3] - bbox2[1]) * (bbox2[4] - bbox2[2])
        union == area1 + area2
    IN  IF x2_i < x1_i \/ y2_i < y1_i THEN Zero
        ELSE IF union = 0 THEN Zero
        ELSE Rat(intersection, union)

\* A faulty variant of _calculate_iou: no early return for an empty intersection.
_calculate_iouNoEmptyCheck(bbox1, bbox2) ==
    LET x1_i == MaxI(bbox1[1], bbox2[1])
        y1_i == MaxI(bbox1[2], bbox2[2])
        x2_i == MinI(bbox1[3], bbox2[3])
        y2_i == MinI(bbox1[4], bbox2[4])
        intersection == (x2_i - x1_i) * (y2_i - y1_i)
        area1 == (bbox1[3] - bbox1[1]) * (bbox1[4] - bbox1[2])
        area2 == (bbox2[3] - bbox2[1]) * (bbox2[4] - bbox2[2])
        union == area1 + area2 - intersection
    IN  IF union = 0 THEN Zero
        ELSE Rat(intersection, union)

\* A faulty variant of _calculate_iou: two boxes whose union is empty are
\* given IoU 1.
_calculate_iouEmptyUnionIsOne(bbox1, bbox2) ==
    LET x1_i == MaxI(bbox1[1], bbox2[1])
        y1_i == MaxI(bbox1[2], bbox2[2])
        x2_i == MinI(bbox1[3], bbox2[3])
        y2_i == MinI(bbox1[4], bbox2[4])
        intersection == (x2_i - x1_i) * (y2_i - y1_i)
        area1 == (bbox1[3] - bbox1[1]) * (bbox1[4] - bbox1[2])
        area2 == (bbox2[3] - bbox2[1]) * (bbox2[4] - bbox2[2])
        union == area1 + area2 - intersection
    IN  IF x2_i < x1_i \/ y2_i < y1_i THEN Zero
        ELSE IF union = 0 THEN Int2Rat(1)
        ELSE Rat(intersection, union)

_calculate_iou(bbox1, bbox2) ==
    LET x1_i == MaxI(bbox1[1], bbox2[1])
        y1_i == MaxI(bbox1[2], bbox2[2])
        x2_i == MinI(bbox1[3], bbox2[3])
        y2_i == MinI(bbox1[4], bbox2[4])
        intersection == (x2_i - x1_i) * (y2_i - y1_i)
        area1 == (bbox1[3] - bbox1[1]) * (bbox1[4] - bbox1[2])
        area2 == (bbox2[3] - bbox2[1]) * (bbox2[4] - bbox2[2])
        union == area1 + area2 - intersection
    IN  IF x2_i < x1_i \/ y2_i < y1_i THEN Zero
        ELSE IF union = 0 THEN Zero
        ELSE Rat(intersection, union)

---------------------------------------------------------------------------
(* Grouping and matching                                                   *)

\* det.get("element_type", "unknown")
ElementType(det) == IF det.element_type = NoType THEN "unknown" ELSE det.element_type

\* The keys of _group_by_type(detections), in insertion order.
RECURSIVE GroupKeys(_, _)
GroupKeys(detections, seen) ==
    IF detections = <<>> THEN <<>>
    ELSE LET t == ElementType(Head(detections))
         IN  IF t \in seen THEN GroupKeys(Tail(detections), seen)
             ELSE <<t>> \o GroupKeys(Tail(detections), seen \cup {t})

\* A faulty variant of _group_by_type: one bucket holds every detection.
_group_by_typeOneBucket(detections, element_type) == detections

\* _group_by_type(detections).get(element_type, [])
_group_by_type(detections, element_type) ==
    SelectSeq(detections, LAMBDA det : ElementType(det) = element_type)

\* The inner loop of _match_detections from index i on: the index of the best
\* match (0 for None) given the best so far.
RECURSIVE ScanPresentNoThreshold(_, _, _, _, _, _)
ScanPresentNoThreshold(base_det, present_dets, used_present, i, best_match, best_iou) ==
    IF i > Len(present_dets) THEN best_match
    ELSE IF i \in used_present
         THEN ScanPresentNoThreshold(base_det, present_dets, used_present, i + 1, best_match, best_iou)
         ELSE LET iou == _calculate_iou(base_det.bbox, present_dets[i].bbox)
              IN  IF RatGt(iou, best_iou)
                  THEN ScanPresentNoThreshold(base_det, present_dets, used_present, i + 1, i, iou)
                  ELSE ScanPresentNoThreshold(base_det, present_dets, used_present, i + 1, best_match, best_iou)

\* A faulty variant of ScanPresent: >= in place of > on best_iou, the last of
\* several candidates of equal IoU wins.
RECURSIVE ScanPresentLastWins(_, _, _, _, _, _)
ScanPresentLastWins(base_det, present_dets, used_present, i, best_match, best_iou) ==
    IF i > Len(present_dets) THEN best_match
    ELSE IF i \in used_present
         THEN ScanPresentLastWins(base_det, present_dets, used_present, i + 1, best_match, best_iou)
         ELSE LET iou == _calculate_iou(base_det.bbox, present_dets[i].bbox)
              IN  IF RatGe(iou, best_iou) /\ RatGe(iou, iou_threshold)
                  THEN ScanPresentLastWins(base_det, present_dets, used_present, i + 1, i, iou)
                  ELSE ScanPresentLastWins(base_det, present_dets, used_present, i + 1, best_match, best_iou)

RECURSIVE ScanPresent(_, _, _, _, _, _)
ScanPresent(base_det, present_dets, used_present, i, best_match, best_iou) ==
    IF i > Len(present_dets) THEN best_match
    ELSE IF i \in used_present
         THEN ScanPresent(base_det, present_dets, used_present, i + 1, best_match, best_iou)
         ELSE LET iou == _calculate_iou(base_det.bbox, present_dets[i].bbox)
              IN  IF RatGt(iou, best_iou) /\ RatGe(iou, iou_threshold)
                  THEN ScanPresent(base_det, present_dets, used_present, i + 1, i, iou)
                  ELSE ScanPresent(base_det, present_dets, used_present, i + 1, best_match, best_iou)

\* The outer loop of _match_detections from base index k on.
RECURSIVE MatchLoopNoClaim(_, _, _, _)
MatchLoopNoClaim(base_dets, present_dets, k, used_present) ==
    IF k > Len(base_dets) THEN <<>>
    ELSE LET best_match == ScanPresent(base_dets[k], present_dets, used_present, 1, 0, Zero)
         IN  IF best_match /= 0
             THEN <<[base |-> base_dets[k], present |-> present_dets[best_match]]>>
                  \o MatchLoopNoClaim(base_dets, present_dets, k + 1, used_present)
             ELSE MatchLoopNoClaim(base_dets, present_dets, k + 1, used_present)

RECURSIVE MatchLoop(_, _, _, _)
MatchLoop(base_dets, present_dets, k, used_present) ==
    IF k > Len(base_dets) THEN <<>>
    ELSE LET best_match == ScanPresent(base_dets[k], present_dets, used_present, 1, 0, Zero)
         IN  IF best_match /= 0
             THEN <<[base |-> base_dets[k], present |-> present_dets[best_match]]>>
                  \o MatchLoop(base_dets, present_dets, k + 1, used_present \cup {best_match})
             ELSE MatchLoop(base_dets, present_dets, k + 1, used_present)

\* x1, y1, x2, y2 = bbox raises ValueError unless bbox has four elements.
Unpacks(bbox) == Len(bbox) = 4

\* Whether a call of _calculate_iou made by the loops from base index k on
\* raises ValueError: base_dets[k] is compared with every present detection
\* not in used_present, in order, and the first call whose bbox1 or bbox2
\* does not unpack ends the loops.
RECURSIVE MatchLoopRaises(_, _, _, _)
MatchLoopRaises(base_dets, present_dets, k, used_present) ==
    IF k > Len(base_dets) THEN FALSE
    ELSE IF \E i \in (1..Len(present_dets)) \ used_present :
                ~Unpacks(base_dets[k].bbox) \/ ~Unpacks(present_dets[i].bbox)
         THEN TRUE
         ELSE LET best_match == ScanPresent(base_dets[k], present_dets, used_present, 1, 0, Zero)
              IN  MatchLoopRaises(base_dets, present_dets, k + 1,
                                  IF best_match /= 0 THEN used_present \cup {best_match}
                                  ELSE used_present)

\* A faulty variant of _match_detections: the base detections are processed
\* from the last to the first.
_match_detectionsLastFirst(base_dets, present_dets) ==
    MatchLoop([k \in 1..Len(base_dets) |-> base_dets[Len(base_dets) + 1 - k]], present_dets, 1, {})

_match_detections(base_dets, present_dets) == MatchLoop(base_dets, present_dets, 1, {})

\* side = "base" or "present"; id(det) is the detection's identity
_get_unmatchedSwapped(detections, pairs, side) ==
    LET matched_dets == IF side = "base"
                        THEN {pairs[m].present.id : m \in 1..Len(pairs)}
                        ELSE {pairs[m].base.id : m \in 1..Len(pairs)}
    IN  SelectSeq(detections, LAMBDA det : det.id \notin matched_dets)

\* A faulty variant of _get_unmatched: detections are compared by value, not by id().
_get_unmatchedByValue(detections, pairs, side) ==
    LET matched_dets == IF side = "base"
                        THEN {[pairs[m].base EXCEPT !.id = 0] : m \in 1..Len(pairs)}
                        ELSE {[pairs[m].present EXCEPT !.id = 0] : m \in 1..Len(pairs)}
    IN  SelectSeq(detections, LAMBDA det : [det EXCEPT !.id = 0] \notin matched_dets)

_get_unmatched(detections, pairs, side) ==
    LET matched_dets == IF side = "base"
                        THEN {pairs[m].base.id : m \in 1..Len(pairs)}
                        ELSE {pairs[m].present.id : m \in 1..Len(pairs)}
    IN  SelectSeq(detections, LAMBDA det : det.id \notin matched_dets)

---------------------------------------------------------------------------
(* Deterioration and severity                                              *)

\* area after _safe_float and the clamp max(0.0, .)
CoercedArea(det) == RatMax(Zero, _safe_float(Get(det.area, Zero)))

\* confidence after _safe_float
CoercedConf(det) == _safe_float(Get(det.confidence, Zero))

\* denom = base_area if base_area > 1e-6 else 1.0
Denom(base_area) == IF RatGt(base_area, Epsilon) THEN base_area ELSE One

\* conf_increase and area_increase of _is_deteriorated
conf_increase(base_det, present_det) == RatSub(CoercedConf(present_det), CoercedConf(base_det))

area_increase(base_det, present_det) ==
    RatDiv(RatSub(CoercedArea(present_det), CoercedArea(base_det)), Denom(CoercedArea(base_det)))

\* A faulty variant of _is_deteriorated: >= in place of >.
_is_deterioratedNonStrict(base_det, present_det) ==
    \/ RatGe(conf_increase(base_det, present_det), change_threshold)
    \/ RatGe(area_increase(base_det, present_det), AreaIncreaseThreshold)

_is_deteriorated(base_det, present_det) ==
    \/ RatGt(conf_increase(base_det, present_det), change_threshold)
    \/ RatGt(area_increase(base_det, present_det), AreaIncreaseThreshold)

\* A faulty variant of _calculate_deterioration: the area score is not clamped to 1.0.
_calculate_deteriorationUnclamped(base_det, present_det) ==
    LET base_conf == CoercedConf(base_det)
        present_conf == CoercedConf(present_det)
        base_area == CoercedArea(base_det)
        present_area == CoercedArea(present_det)
        conf_score == RatMax(Zero, RatSub(present_conf, base_conf))
        denom == IF RatGt(base_area, Epsilon) THEN base_area ELSE One
        raw_area_score == RatMax(Zero, RatDiv(RatSub(present_area, base_area), denom))
    IN  RatAdd(RatMul(conf_score, ConfWeight), RatMul(raw_area_score, AreaWeight))

\* A faulty variant of _calculate_deterioration: the confidence term is left out.
_calculate_deteriorationAreaOnly(base_det, present_det) ==
    LET base_area == CoercedArea(base_det)
        present_area == CoercedArea(present_det)
        denom == IF RatGt(base_area, Epsilon) THEN base_area ELSE One
        raw_area_score == RatMax(Zero, RatDiv(RatSub(present_area, base_area), denom))
        area_score == RatMin(raw_area_score, One)
    IN  RatMul(area_score, AreaWeight)

_calculate_deterioration(base_det, present_det) ==
    LET base_conf == CoercedConf(base_det)
        present_conf == CoercedConf(present_det)
        base_area == CoercedArea(base_det)
        present_area == CoercedArea(present_det)
        conf_score == RatMax(Zero, RatSub(present_conf, base_conf))
        denom == IF RatGt(base_area, Epsilon) THEN base_area ELSE One
        raw_area_score == RatMax(Zero, RatDiv(RatSub(present_area, base_area), denom))
        area_score == RatMin(raw_area_score, One)
    IN  RatAdd(RatMul(conf_score, ConfWeight), RatMul(area_score, AreaWeight))

\* severity_score of _classify_severity for numeric confidence and area
severity_score(confidence, area) ==
    LET normalized_area == RatMin(One, RatDiv(area, FrameArea))
    IN  RatAdd(RatMul(confidence, ConfWeight), RatMul(normalized_area, AreaWeight))

\* The result of a call: a value, or the exception it raised.
Returns(value) == [err |-> "", value |-> value]
Raises(exception) == [err |-> exception, value |-> ""]

\* A faulty variant of _classify_severity: >= in place of > at both thresholds.
_classify_severityNonStrict(detection) ==
    LET confidence == Get(detection.confidence, Rat(1, 2))
        area == Get(detection.area, Zero)
    IN  IF ~IsNumber(area) \/ ~IsNumber(confidence) THEN Raises("TypeError")
        ELSE IF RatGe(severity_score(confidence.v, area.v), SevereAbove) THEN Returns("severe")
        ELSE IF RatGe(severity_score(confidence.v, area.v), ModerateAbove) THEN Returns("moderate")
        ELSE Returns("minor")

\* area / (1280 * 720) and confidence * 0.6 raise TypeError on None and on a string
_classify_severity(detection) ==
    LET confidence == Get(detection.confidence, Rat(1, 2))
        area == Get(detection.area, Zero)
    IN  IF ~IsNumber(area) \/ ~IsNumber(confidence) THEN Raises("TypeError")
        ELSE IF RatGt(severity_score(confidence.v, area.v), SevereAbove) THEN Returns("severe")
        ELSE IF RatGt(severity_score(confidence.v, area.v), ModerateAbove) THEN Returns("moderate")
        ELSE Returns("minor")

---------------------------------------------------------------------------
(* detect_changes.  A step of the function either appends records or       *)
(* raises; the first exception ends the call and nothing is returned.      *)

Appends(records) == [err |-> "", recs |-> records]
Aborts(exception) == [err |-> exception, recs |-> <<>>]

\* step a, then step b unless a raised
Then(a, b) ==
    IF a.err /= "" THEN a
    ELSE IF b.err /= "" THEN Aborts(b.err)
    ELSE Appends(a.recs \o b.recs)

RECURSIVE ThenAll(_)
ThenAll(steps) == IF steps = <<>> THEN Appends(<<>>) ELSE Then(Head(steps), ThenAll(Tail(steps)))

\* None is the empty sequence; an object is a sequence of length one.
None == <<>>

NewIssueRecord(element_type, det) ==
    IF det.confidence.k = "missing" THEN Aborts("KeyError")
    ELSE LET severity == _classify_severity(det)
         IN  IF severity.err /= "" THEN Aborts(severity.err)
             ELSE Appends(<<[element_type |-> element_type,
                             bbox |-> det.bbox,
                             confidence |-> det.confidence,
                             change_type |-> "new_issue",
                             severity |-> severity.value,
                             base_detection |-> None,
                             present_detection |-> <<det>>,
                             deterioration_score |-> None]>>)

\* A faulty variant of DeterioratedRecord: severity taken from the base detection.
DeterioratedRecordBaseSeverity(element_type, base_det, present_det) ==
    IF ~_is_deteriorated(base_det, present_det) THEN Appends(<<>>)
    ELSE IF present_det.confidence.k = "missing" THEN Aborts("KeyError")
    ELSE LET severity == _classify_severity(base_det)
         IN  IF severity.err /= "" THEN Aborts(severity.err)
             ELSE Appends(<<[element_type |-> element_type,
                             bbox |-> present_det.bbox,
                             confidence |-> present_det.confidence,
                             change_type |-> "deteriorated",
                             severity |-> severity.value,
                             base_detection |-> <<base_det>>,
                             present_detection |-> <<present_det>>,
                             deterioration_score |->
                                 <<_calculate_deterioration(base_det, present_det)>>]>>)

DeterioratedRecord(element_type, base_det, present_det) ==
    IF ~_is_deteriorated(base_det, present_det) THEN Appends(<<>>)
    ELSE IF present_det.confidence.k = "missing" THEN Aborts("KeyError")
    ELSE LET severity == _classify_severity(present_det)
         IN  IF severity.err /= "" THEN Aborts(severity.err)
             ELSE Appends(<<[element_type |-> element_type,
                             bbox |-> present_det.bbox,
                             confidence |-> present_det.confidence,
                             change_type |-> "deteriorated",
                             severity |-> severity.value,
                             base_detection |-> <<base_det>>,
                             present_detection |-> <<present_det>>,
                             deterioration_score |->
                                 <<_calculate_deterioration(base_det, present_det)>>]>>)

\* A faulty variant of FixedRecord: the severity of the base detection is kept.
FixedRecordClassified(element_type, det) ==
    IF det.confidence.k = "missing" THEN Aborts("KeyError")
    ELSE LET severity == _classify_severity(det)
         IN  IF severity.err /= "" THEN Aborts(severity.err)
             ELSE Appends(<<[element_type |-> element_type,
                             bbox |-> det.bbox,
                             confidence |-> det.confidence,
                             change_type |-> "fixed",
                             severity |-> severity.value,
                             base_detection |-> <<det>>,
                             present_detection |-> None,
                             deterioration_score |-> None]>>)

\* A faulty variant of FixedRecord: the detection is stored on the present side.
FixedRecordSwapped(element_type, det) ==
    IF det.confidence.k = "missing" THEN Aborts("KeyError")
    ELSE Appends(<<[element_type |-> element_type,
                    bbox |-> det.bbox,
                    confidence |-> det.confidence,
                    change_type |-> "fixed",
                    severity |-> "minor",
                    base_detection |-> None,
                    present_detection |-> <<det>>,
                    deterioration_score |-> None]>>)

FixedRecord(element_type, det) ==
    IF det.confidence.k = "missing" THEN Aborts("KeyError")
    ELSE Appends(<<[element_type |-> element_type,
                    bbox |-> det.bbox,
                    confidence |-> det.confidence,
                    change_type |-> "fixed",
                    severity |-> "minor",
                    base_detection |-> <<det>>,
                    present_detection |-> None,
                    deterioration_score |-> None]>>)

\* The body of the first loop for one element type of present_by_type.
PresentTypeStep(base, present, element_type) ==
    LET present_dets == _group_by_type(present, element_type)
        base_dets == _group_by_type(base, element_type)
        pairs == _match_detections(base_dets, present_dets)
        unmatched_present == _get_unmatched(present_dets, pairs, "present")
    IN  IF MatchLoopRaises(base_dets, present_dets, 1, {}) THEN Aborts("ValueError")
        ELSE Then(ThenAll([i \in 1..Len(unmatched_present) |->
                              NewIssueRecord(element_type, unmatched_present[i])]),
                  ThenAll([m \in 1..Len(pairs) |->
                              DeterioratedRecord(element_type, pairs[m].base, pairs[m].present)]))

\* The body of the second loop for one element type of base_by_type.
BaseTypeStep(base, present, element_type) ==
    LET base_dets == _group_by_type(base, element_type)
        present_dets == _group_by_type(present, element_type)
        pairs == _match_detections(base_dets, present_dets)
        unmatched_base == _get_unmatched(base_dets, pairs, "base")
    IN  IF MatchLoopRaises(base_dets, present_dets, 1, {}) THEN Aborts("ValueError")
        ELSE ThenAll([i \in 1..Len(unmatched_base) |->
                         FixedRecord(element_type, unmatched_base[i])])

\* A faulty variant of detect_changes: one loop, the records of a type are
\* appended together as new_issue, deteriorated, fixed.
detect_changesTypeByType(base, present) ==
    LET present_types == GroupKeys(present, {})
        base_types == SelectSeq(GroupKeys(base, {}),
                                LAMBDA t : \A j \in 1..Len(present_types) : present_types[j] /= t)
    IN  Then(ThenAll([j \in 1..Len(present_types) |->
                         Then(PresentTypeStep(base, present, present_types[j]),
                              BaseTypeStep(base, present, present_types[j]))]),
             ThenAll([j \in 1..Len(base_types) |-> BaseTypeStep(base, present, base_types[j])]))

detect_changes(base, present) ==
    LET present_types == GroupKeys(present, {})
        base_types == GroupKeys(base, {})
    IN  Then(ThenAll([j \in 1..Len(present_types) |-> PresentTypeStep(base, present, present_types[j])]),
             ThenAll([j \in 1..Len(base_types) |-> BaseTypeStep(base, present, base_types[j])]))

---------------------------------------------------------------------------
(* Inputs                                                                  *)

MaxBase == 2
MaxPresent == 2

\* Bounding boxes [x1, y1, x2, y2].  IoU(BoxA, BoxB) = 1/3, IoU(BoxA, BoxC) = 3/10
\* (exactly the threshold), IoU(BoxB, BoxC) = 3/23 (positive, below the threshold).
BoxA == <<0, 0, 10, 10>>
BoxB == <<5, 0, 15, 10>>
BoxC == <<0, 0, 10, 3>>

Det(element_type, bbox, confidence, area) ==
    [id |-> 0, element_type |-> element_type, bbox |-> bbox, confidence |-> confidence, area |-> area]

\* The detection dicts of one frame as the detector builds them (numeric
\* confidence and area): three boxes of one type at confidence 0.5, a dict
\* without element_type, and BoxA at confidence 0.9.
DetSpace ==
    {Det("pavement_crack", b, Num(Rat(1, 2)), Num(Int2Rat(100))) : b \in {BoxA, BoxB, BoxC}}
    \cup {Det(NoType, BoxA, Num(Rat(1, 2)), Num(Int2Rat(100))),
          Det("pavement_crack", BoxA, Num(Rat(9, 10)), Num(Int2Rat(100)))}

SeqsUpTo(S, n) == UNION {[1..m -> S] : m \in 0..n}

\* Every dict of a list is an object of its own: id(det) is distinct per position.
WithIds(dets, offset) == [i \in 1..Len(dets) |-> [dets[i] EXCEPT !.id = offset + i]]

NoRet == [deteriorated |-> FALSE, score |-> Zero, severity |-> Returns(""),
          iou |-> Zero, iou_swapped |-> Zero]

\* No frames are held and nothing has been aligned.
NoFrames ==
    /\ base_frames = <<>>
    /\ present_frames = <<>>
    /\ base_gps_data = None
    /\ present_gps_data = None
    /\ aligned_pairs = <<>>

\* No analysis run has started: no status.json, no results.json.
NoRun ==
    /\ run_status = None
    /\ results_file = None
    /\ run_detections = <<>>
    /\ calls = <<>>
    /\ status_writes = <<>>

\* ChangeDetector(config) under the default configuration: self.change_threshold
DefaultConfig == change_threshold = DefaultChangeThreshold

Init ==
    /\ \E bs \in SeqsUpTo(DetSpace, MaxBase), ps \in SeqsUpTo(DetSpace, MaxPresent) :
          /\ base_detections = WithIds(bs, 0)
          /\ present_detections = WithIds(ps, Len(bs))
    /\ pc = "ready"
    /\ changes = <<>>
    /\ error = ""
    /\ matched_pairs = <<>>
    /\ ret = NoRet
    /\ NoFrames
    /\ NoRun
    /\ DefaultConfig

\* await change_detector.detect_changes(base_detections, present_detections)
DetectChanges ==
    /\ pc = "ready"
    /\ \E outcome \in {detect_changes(base_detections, present_detections)} :
           /\ pc' = IF outcome.err = "" THEN "returned" ELSE "raised"
           /\ changes' = outcome.recs
           /\ error' = outcome.err
    /\ UNCHANGED <<base_detections, present_detections, matched_pairs, ret>>
    /\ UNCHANGED <<align_vars, run_vars, change_threshold>>

\* _match_detections(base_dets, present_dets) on the two lists as one bucket
MatchDetections ==
    /\ pc = "ready"
    /\ IF MatchLoopRaises(base_detections, present_detections, 1, {})
       THEN /\ pc' = "raised"
            /\ error' = "ValueError"
            /\ UNCHANGED matched_pairs
       ELSE /\ pc' = "matched"
            /\ matched_pairs' = _match_detections(base_detections, present_detections)
            /\ UNCHANGED error
    /\ UNCHANGED <<base_detections, present_detections, changes, ret>>
    /\ UNCHANGED <<align_vars, run_vars, change_threshold>>

Next == DetectChanges \/ MatchDetections

Spec == Init /\ [][Next]_vars

---------------------------------------------------------------------------
(* The numeric functions on one base and one present detection.            *)

ConfValues ==
    {Num(Zero), Num(Rat(1, 2)), Num(Rat(4, 5)), Num(Rat(9, 10)), Num(One), Missing, NoneVal, BadStr}

AreaValues ==
    {Num(Int2Rat(-100)), Num(Zero), Num(Rat(1, 4)), Num(Int2Rat(100)), Num(Int2Rat(130)),
     Num(Int2Rat(131)), Num(Int2Rat(230400)), Num(Int2Rat(921600)), Num(Int2Rat(1843200)),
     Missing, NoneVal, BadStr}

NumDetSpace == {Det("pavement_crack", BoxA, c, a) : c \in ConfValues, a \in AreaValues}

InitNum ==
    /\ \E b \in NumDetSpace, p \in NumDetSpace :
          /\ base_detections = WithIds(<<b>>, 0)
          /\ present_detections = WithIds(<<p>>, 1)
    /\ pc = "ready"
    /\ changes = <<>>
    /\ error = ""
    /\ matched_pairs = <<>>
    /\ ret = NoRet
    /\ NoFrames
    /\ NoRun
    /\ DefaultConfig

\* self._is_deteriorated(base_det, present_det)
IsDeteriorated ==
    /\ pc = "ready"
    /\ ret' = [ret EXCEPT !.deteriorated = _is_deteriorated(base_detections[1], present_detections[1])]
    /\ pc' = "is_deteriorated"
    /\ UNCHANGED <<base_detections, present_detections, changes, error, matched_pairs>>
    /\ UNCHANGED <<align_vars, run_vars, change_threshold>>

\* self._calculate_deterioration(base_det, present_det)
CalculateDeterioration ==
    /\ pc = "ready"
    /\ ret' = [ret EXCEPT !.score = _calculate_deterioration(base_detections[1], present_detections[1])]
    /\ pc' = "calculate_deterioration"
    /\ UNCHANGED <<base_detections, present_detections, changes, error, matched_pairs>>
    /\ UNCHANGED <<align_vars, run_vars, change_threshold>>

\* self._classify_severity(present_det)
ClassifySeverity ==
    /\ pc = "ready"
    /\ ret' = [ret EXCEPT !.severity = _classify_severity(present_detections[1])]
    /\ pc' = "classify_severity"
    /\ UNCHANGED <<base_detections, present_detections, changes, error, matched_pairs>>
    /\ UNCHANGED <<align_vars, run_vars, change_threshold>>

NextNum == IsDeteriorated \/ CalculateDeterioration \/ ClassifySeverity

SpecNum == InitNum /\ [][NextNum]_vars

---------------------------------------------------------------------------
(* detect_changes on dicts whose confidence or area is absent, None or a   *)
(* non-numeric string.                                                     *)

MaxMalformed == 1

MalformedDetSpace ==
    {Det("pavement_crack", BoxA, c, Num(Int2Rat(100))) :
        c \in {Num(Rat(1, 2)), Num(Rat(9, 10)), Missing, NoneVal, BadStr}}
    \cup {Det("pavement_crack", BoxA, Num(Rat(9, 10)), a) : a \in {Missing, NoneVal, BadStr}}

InitMalformed ==
    /\ \E bs \in SeqsUpTo(MalformedDetSpace, MaxMalformed),
          ps \in SeqsUpTo(MalformedDetSpace, MaxMalformed) :
          /\ base_detections = WithIds(bs, 0)
          /\ present_detections = WithIds(ps, Len(bs))
    /\ pc = "ready"
    /\ changes = <<>>
    /\ error = ""
    /\ matched_pairs = <<>>
    /\ ret = NoRet
    /\ NoFrames
    /\ NoRun
    /\ DefaultConfig

NextMalformed == DetectChanges

SpecMalformed == InitMalformed /\ [][NextMalformed]_vars

---------------------------------------------------------------------------
(* Properties of the matching (specification Spec)                         *)

Range(seq) == {seq[i] : i \in 1..Len(seq)}

\* The present positions claimed by the pairs of the base detections processed
\* before base position k.
ClaimedBefore(k) ==
    {i \in 1..Len(present_detections) :
        \E m \in 1..Len(matched_pairs) :
            /\ matched_pairs[m].present.id = present_detections[i].id
            /\ matched_pairs[m].base.id < base_detections[k].id}

BaseIsMatched(k) ==
    \E m \in 1..Len(matched_pairs) : matched_pairs[m].base.id = base_detections[k].id

\* C1: the matching returned by _match_detections is one-to-one: no base
\* detection and no present detection (an object per list position) is in more
\* than one matched pair, and every pair joins a detection of the base list
\* with one of the present list.
C1_MatchingOneToOne ==
    pc = "matched" =>
        /\ \A m \in 1..Len(matched_pairs) :
              /\ matched_pairs[m].base \in Range(base_detections)
              /\ matched_pairs[m].present \in Range(present_detections)
        /\ \A m, n \in 1..Len(matched_pairs) :
              m /= n => /\ matched_pairs[m].base.id /= matched_pairs[n].base.id
                        /\ matched_pairs[m].present.id /= matched_pairs[n].present.id

\* Two base detections overlap the only present detection at or above the
\* threshold, and one pair is returned.
C1_Witness ==
    /\ pc = "matched"
    /\ Len(base_detections) = 2
    /\ Len(present_detections) = 1
    /\ \A k \in 1..2 :
          RatGe(_calculate_iou(base_detections[k].bbox, present_detections[1].bbox), iou_threshold)
    /\ Len(matched_pairs) = 1

\* C2: every matched pair has IoU >= iou_threshold, and a base detection whose
\* IoU with every present detection not claimed before its turn is below the
\* threshold is in no pair.
C2_MatchedAtOrAboveThreshold ==
    pc = "matched" =>
        /\ \A m \in 1..Len(matched_pairs) :
              RatGe(_calculate_iou(matched_pairs[m].base.bbox, matched_pairs[m].present.bbox),
                    Rat(3, 10))
        /\ \A k \in 1..Len(base_detections) :
              (\A i \in (1..Len(present_detections)) \ ClaimedBefore(k) :
                  RatLt(_calculate_iou(base_detections[k].bbox, present_detections[i].bbox),
                        Rat(3, 10)))
              => ~BaseIsMatched(k)

\* A pair at exactly the threshold, and a base detection left unmatched whose
\* best unclaimed candidate has a positive IoU below the threshold.
C2_Witness ==
    /\ pc = "matched"
    /\ \E m \in 1..Len(matched_pairs) :
          _calculate_iou(matched_pairs[m].base.bbox, matched_pairs[m].present.bbox) = Rat(3, 10)
    /\ \E k \in 1..Len(base_detections) :
          /\ ~BaseIsMatched(k)
          /\ \E i \in (1..Len(present_detections)) \ ClaimedBefore(k) :
                RatGt(_calculate_iou(base_detections[k].bbox, present_detections[i].bbox), Zero)

---------------------------------------------------------------------------
(* Properties of detect_changes (specification Spec)                       *)

Called == pc \in {"returned", "raised"}

\* The matched pairs of the bucket of a detection's element type.
PairsOfType(element_type) ==
    _match_detections(_group_by_type(base_detections, element_type),
                      _group_by_type(present_detections, element_type))

PresentIsMatched(det) ==
    \E m \in 1..Len(PairsOfType(ElementType(det))) :
        PairsOfType(ElementType(det))[m].present.id = det.id

BaseDetIsMatched(det) ==
    \E m \in 1..Len(PairsOfType(ElementType(det))) :
        PairsOfType(ElementType(det))[m].base.id = det.id

RecordsOf(change_type) == {j \in 1..Len(changes) : changes[j].change_type = change_type}

\* C3: detect_changes returns, with exactly one new_issue record for every
\* present detection in no matched pair of its element type, none for a matched
\* present detection, and no new_issue record for anything else.
C3_NewIssuePerUnmatchedPresent ==
    Called =>
        /\ pc = "returned"
        /\ \A i \in 1..Len(present_detections) :
              Cardinality({j \in RecordsOf("new_issue") :
                              changes[j].present_detection = <<present_detections[i]>>})
                  = IF PresentIsMatched(present_detections[i]) THEN 0 ELSE 1
        /\ \A j \in RecordsOf("new_issue") :
              /\ \E i \in 1..Len(present_detections) :
                    changes[j].present_detection = <<present_detections[i]>>
              /\ changes[j].element_type = ElementType(changes[j].present_detection[1])
              /\ changes[j].severity = _classify_severity(changes[j].present_detection[1]).value

\* One present detection is matched and another has a type absent from the base list.
C3_Witness ==
    /\ pc = "returned"
    /\ \E i \in 1..Len(present_detections) : PresentIsMatched(present_detections[i])
    /\ \E i \in 1..Len(present_detections) :
          /\ _group_by_type(base_detections, ElementType(present_detections[i])) = <<>>
          /\ \E j \in RecordsOf("new_issue") :
                changes[j].present_detection = <<present_detections[i]>>

\* C4: detect_changes returns, with exactly one fixed record for every base
\* detection in no matched pair of its element type and none for a matched one;
\* every fixed record has severity "minor".
C4_FixedPerUnmatchedBaseIsMinor ==
    Called =>
        /\ pc = "returned"
        /\ \A k \in 1..Len(base_detections) :
              Cardinality({j \in RecordsOf("fixed") :
                              changes[j].base_detection = <<base_detections[k]>>})
                  = IF BaseDetIsMatched(base_detections[k]) THEN 0 ELSE 1
        /\ \A j \in RecordsOf("fixed") :
              /\ \E k \in 1..Len(base_detections) :
                    changes[j].base_detection = <<base_detections[k]>>
              /\ changes[j].severity = "minor"

\* A fixed record for a base detection that severity classification would not
\* call minor, of a type absent from the present list.
C4_Witness ==
    /\ pc = "returned"
    /\ \E j \in RecordsOf("fixed") :
          /\ _classify_severity(changes[j].base_detection[1]).value = "moderate"
          /\ _group_by_type(present_detections, changes[j].element_type) = <<>>

\* The records that refer to the base or to the present detection of a pair.
RecordsAbout(pair) ==
    {j \in 1..Len(changes) :
        \/ changes[j].base_detection = <<pair.base>>
        \/ changes[j].present_detection = <<pair.present>>}

AllPairs ==
    UNION {Range(PairsOfType(t)) : t \in Range(GroupKeys(base_detections \o present_detections, {}))}

\* C5: for every matched pair there is a deteriorated record iff the
\* deterioration predicate holds for it; the record carries the present
\* detection's bbox and confidence and the severity of the present detection
\* alone; a pair for which the predicate is false has no record of any kind,
\* and every deteriorated record is the record of a matched pair.
C5_DeterioratedIffPredicate ==
    Called =>
        /\ pc = "returned"
        /\ \A pair \in AllPairs :
              IF _is_deteriorated(pair.base, pair.present)
              THEN \E j \in 1..Len(changes) :
                      /\ RecordsAbout(pair) = {j}
                      /\ changes[j].change_type = "deteriorated"
                      /\ changes[j].base_detection = <<pair.base>>
                      /\ changes[j].present_detection = <<pair.present>>
                      /\ changes[j].element_type = ElementType(pair.present)
                      /\ changes[j].bbox = pair.present.bbox
                      /\ changes[j].confidence = pair.present.confidence
                      /\ changes[j].severity = _classify_severity(pair.present).value
              ELSE RecordsAbout(pair) = {}
        /\ \A j \in RecordsOf("deteriorated") :
              \E pair \in AllPairs : /\ changes[j].base_detection = <<pair.base>>
                                     /\ changes[j].present_detection = <<pair.present>>

\* One pair deteriorated, with a base detection of another severity than the
\* present one, and one matched pair without any record.
C5_Witness ==
    /\ pc = "returned"
    /\ \E j \in RecordsOf("deteriorated") :
          _classify_severity(changes[j].base_detection[1]).value /= changes[j].severity
    /\ \E pair \in AllPairs : RecordsAbout(pair) = {}

\* C6: in every returned record, change_type is new_issue, deteriorated or
\* fixed and severity is minor, moderate or severe; a fixed record has
\* present_detection None and a base detection; a new_issue record has
\* base_detection None and a present detection; a deteriorated record has both.
C6_RecordShape ==
    pc = "returned" =>
        \A j \in 1..Len(changes) :
            /\ changes[j].change_type \in {"new_issue", "deteriorated", "fixed"}
            /\ changes[j].severity \in {"minor", "moderate", "severe"}
            /\ changes[j].change_type = "fixed" =>
                  /\ changes[j].present_detection = None
                  /\ Len(changes[j].base_detection) = 1
                  /\ changes[j].base_detection[1] \in Range(base_detections)
            /\ changes[j].change_type = "new_issue" =>
                  /\ changes[j].base_detection = None
                  /\ Len(changes[j].present_detection) = 1
                  /\ changes[j].present_detection[1] \in Range(present_detections)
            /\ changes[j].change_type = "deteriorated" =>
                  /\ Len(changes[j].base_detection) = 1
                  /\ changes[j].base_detection[1] \in Range(base_detections)
                  /\ Len(changes[j].present_detection) = 1
                  /\ changes[j].present_detection[1] \in Range(present_detections)

\* One returned list holds a record of each change type.
C6_Witness ==
    /\ pc = "returned"
    /\ \A change_type \in {"new_issue", "deteriorated", "fixed"} : RecordsOf(change_type) /= {}

---------------------------------------------------------------------------
(* Malformed values (specification SpecMalformed)                          *)

\* C7: a detection whose confidence or area is missing or non-numeric never
\* makes detect_changes fail: the call returns its change records.
C7_MalformedNeverFails == Called => pc = "returned"

---------------------------------------------------------------------------
(* The numeric functions (specification SpecNum)                           *)

\* Missing and non-numeric values count as 0.0; a negative area counts as 0.0.
CoerceToZero(value) == IF value.k = "num" THEN value.v ELSE Zero
StatedConf(det) == CoerceToZero(det.confidence)
StatedArea(det) == RatMax(Zero, CoerceToZero(det.area))

StatedConfIncrease == RatSub(StatedConf(present_detections[1]), StatedConf(base_detections[1]))
StatedAreaGrowth == RatSub(StatedArea(present_detections[1]), StatedArea(base_detections[1]))

\* The statement of C8 as written: a pair is deteriorated iff
\* conf_increase > 0.3 or (present.area - base.area) / max(base.area, epsilon) > 0.3.
\* The quotient is compared after multiplying by the positive denominator.
C8_DeterioratedByMaxEpsilon ==
    pc = "is_deteriorated" =>
        (ret.deteriorated <=>
            \/ RatGt(StatedConfIncrease, Rat(3, 10))
            \/ RatGt(StatedAreaGrowth,
                     RatMul(Rat(3, 10), RatMax(StatedArea(base_detections[1]), Epsilon))))

\* C8 (amended): a pair is deteriorated iff conf_increase > 0.3 or
\* (present.area - base.area) / denom > 0.3, where denom is base.area when
\* base.area > 1e-6 and 1.0 otherwise (never zero), after coercing missing or
\* non-numeric confidence and area to 0.0 and clamping negative area to 0.0.
C8_DeterioratedIff ==
    pc = "is_deteriorated" =>
        LET base_area == StatedArea(base_detections[1])
            denom == IF RatGt(base_area, Rat(1, 1000000)) THEN base_area ELSE One
        IN  /\ RatGt(denom, Zero)
            /\ ret.deteriorated <=>
                  \/ RatGt(StatedConfIncrease, Rat(3, 10))
                  \/ RatGt(RatDiv(StatedAreaGrowth, denom), Rat(3, 10))

\* A base area of 0 (here from a None) and a present area of 0.25: the
\* denominator is 1.0 and the pair is not deteriorated.
C8_Witness ==
    /\ pc = "is_deteriorated"
    /\ base_detections[1].area = NoneVal
    /\ present_detections[1].area = Num(Rat(1, 4))
    /\ StatedConfIncrease = Zero
    /\ ~ret.deteriorated

\* confidence * 0.6 + min(1.0, area / (1280 * 720)) * 0.4
StatedSeverityScore(det) ==
    RatAdd(RatMul(det.confidence.v, Rat(6, 10)),
           RatMul(RatMin(One, RatDiv(det.area.v, Int2Rat(921600))), Rat(4, 10)))

\* C9: for a numeric confidence and area, severity is severe iff score > 0.7,
\* moderate iff 0.4 < score <= 0.7 and minor otherwise.
C9_SeverityThresholds ==
    (pc = "classify_severity" /\ IsNumber(present_detections[1].confidence)
                              /\ IsNumber(present_detections[1].area)) =>
        LET score == StatedSeverityScore(present_detections[1])
        IN  /\ ret.severity.err = ""
            /\ ret.severity.value = "severe" <=> RatGt(score, Rat(7, 10))
            /\ ret.severity.value = "moderate" <=>
                  (RatGt(score, Rat(4, 10)) /\ RatLe(score, Rat(7, 10)))
            /\ ret.severity.value = "minor" <=> RatLe(score, Rat(4, 10))

\* A score of exactly 0.7 is moderate.
C9_Witness ==
    /\ pc = "classify_severity"
    /\ IsNumber(present_detections[1].confidence)
    /\ IsNumber(present_detections[1].area)
    /\ StatedSeverityScore(present_detections[1]) = Rat(7, 10)
    /\ ret.severity = Returns("moderate")

\* A score of exactly 0.4 is minor.
C9_WitnessMinorBoundary ==
    /\ pc = "classify_severity"
    /\ IsNumber(present_detections[1].confidence)
    /\ IsNumber(present_detections[1].area)
    /\ StatedSeverityScore(present_detections[1]) = Rat(4, 10)
    /\ ret.severity = Returns("minor")

\* C10: the deterioration score is max(0, conf_increase) * 0.6 +
\* min(max(0, area_increase), 1.0) * 0.4 for the conf_increase and
\* area_increase of the deterioration predicate; it is never negative, its
\* area part is at most 0.4, and it is 0.24 for confidences 0.5 and 0.9 with
\* equal areas.
C10_DeteriorationScore ==
    pc = "calculate_deterioration" =>
        LET conf_part == RatMul(RatMax(Zero, conf_increase(base_detections[1], present_detections[1])),
                                Rat(6, 10))
            area_part == RatMul(RatMin(RatMax(Zero, area_increase(base_detections[1],
                                                                  present_detections[1])), One),
                                Rat(4, 10))
        IN  /\ ret.score = RatAdd(conf_part, area_part)
            /\ RatGe(ret.score, Zero)
            /\ RatLe(RatSub(ret.score, conf_part), Rat(4, 10))
            /\ (/\ base_detections[1].confidence = Num(Rat(1, 2))
                /\ present_detections[1].confidence = Num(Rat(9, 10))
                /\ StatedAreaGrowth = Zero) => ret.score = Rat(24, 100)

\* A base area of 0.25 and a present area of a whole frame: the area part is
\* clamped to 0.4.
C10_Witness ==
    /\ pc = "calculate_deterioration"
    /\ base_detections[1].area = Num(Rat(1, 4))
    /\ present_detections[1].area = Num(Int2Rat(921600))
    /\ base_detections[1].confidence = Num(Rat(1, 2))
    /\ present_detections[1].confidence = Num(Rat(9, 10))
    /\ ret.score = Rat(64, 100)

---------------------------------------------------------------------------
(* detect_changes on detections of several element types with one box     *)
(* (specification SpecTypes).                                              *)

MaxTyped == 2

\* Dicts of two named types, a dict without element_type and a dict whose
\* element_type is the string "unknown", all with the same box.
TypedDetSpace ==
    {Det("pavement_crack", BoxA, Num(Rat(1, 2)), Num(Int2Rat(100))),
     Det("road_sign", BoxA, Num(Rat(9, 10)), Num(Int2Rat(100))),
     Det(NoType, BoxA, Num(Rat(1, 2)), Num(Int2Rat(100))),
     Det("unknown", BoxA, Num(Rat(9, 10)), Num(Int2Rat(100)))}

InitTypes ==
    /\ \E bs \in SeqsUpTo(TypedDetSpace, MaxTyped), ps \in SeqsUpTo(TypedDetSpace, MaxTyped) :
          /\ base_detections = WithIds(bs, 0)
          /\ present_detections = WithIds(ps, Len(bs))
    /\ pc = "ready"
    /\ changes = <<>>
    /\ error = ""
    /\ matched_pairs = <<>>
    /\ ret = NoRet
    /\ NoFrames
    /\ NoRun
    /\ DefaultConfig

NextTypes == DetectChanges

SpecTypes == InitTypes /\ [][NextTypes]_vars

\* The type a detection is filed under: its element_type, "unknown" without one.
StatedType(det) == IF det.element_type = NoType THEN "unknown" ELSE det.element_type

\* C11: matching is per element_type.  No record joins a base and a present
\* detection of different types, whatever the overlap of their boxes; a
\* detection whose type occurs on one side only is unmatched (it has its
\* new_issue or fixed record); every record carries the type of its
\* detections, which is "unknown" for a detection without element_type.
C11_MatchingPerElementType ==
    Called =>
        /\ pc = "returned"
        /\ \A j \in 1..Len(changes) :
              /\ \A k \in 1..Len(changes[j].base_detection) :
                    changes[j].element_type = StatedType(changes[j].base_detection[k])
              /\ \A i \in 1..Len(changes[j].present_detection) :
                    changes[j].element_type = StatedType(changes[j].present_detection[i])
        /\ \A i \in 1..Len(present_detections) :
              (\A k \in 1..Len(base_detections) :
                  StatedType(base_detections[k]) /= StatedType(present_detections[i]))
              => \E j \in RecordsOf("new_issue") :
                    changes[j].present_detection = <<present_detections[i]>>
        /\ \A k \in 1..Len(base_detections) :
              (\A i \in 1..Len(present_detections) :
                  StatedType(base_detections[k]) /= StatedType(present_detections[i]))
              => \E j \in RecordsOf("fixed") :
                    changes[j].base_detection = <<base_detections[k]>>

\* A base detection without element_type is paired with a present detection of
\* type "unknown" (a deteriorated record filed under "unknown"), while a base
\* and a present detection with the same box and different types are not paired.
C11_Witness ==
    /\ pc = "returned"
    /\ \E j \in RecordsOf("deteriorated") :
          /\ changes[j].base_detection[1].element_type = NoType
          /\ changes[j].present_detection[1].element_type = "unknown"
          /\ changes[j].element_type = "unknown"
    /\ \E j \in RecordsOf("fixed"), n \in RecordsOf("new_issue") :
          /\ changes[j].bbox = changes[n].bbox
          /\ changes[j].element_type = "pavement_crack"
          /\ changes[n].element_type = "road_sign"

---------------------------------------------------------------------------
(* Frame alignment (data_processing/alignment.py).  A frame is its image    *)
(* (an identity) with its FrameMetadata.  Timestamps are whole seconds.    *)
(* A coordinate is <<lat, lon>> on one straight road: lat = 0 and lon is   *)
(* counted in metres, so the geodesic distance is the distance along it.   *)

\* config.get("video_processing.alignment.gps_tolerance", 50)
gps_tolerance == 50

\* config.get("video_processing.alignment.temporal_tolerance", 5)
temporal_tolerance == 5

\* geodesic(base_coord, present_coord).meters
geodesic(a, b) == Abs(a[2] - b[2])

\* float('inf')
Inf == -1

\* The values of a GPS hint dict: [lat, lon], a list of one element, and a
\* list of two strings that float() rejects.
LatLon(coord) == [k |-> "list", v |-> coord]
ShortList == [k |-> "short", v |-> <<>>]
TextList == [k |-> "text", v |-> <<>>]

\* bool(gps_data): None and the empty dict are false
Truthy(gps_data) == gps_data /= None /\ DOMAIN gps_data[1] /= {}

Resolved(coord) == [err |-> "", coord |-> coord]

\* A faulty variant of FrameCoord: gps_data[frame_num] without the membership test.
FrameCoordUnguarded(metadata, gps_data) ==
    IF metadata.gps_coords /= None THEN Resolved(metadata.gps_coords)
    ELSE IF ~Truthy(gps_data) THEN Resolved(None)
    ELSE IF metadata.frame_number \notin DOMAIN gps_data[1]
         THEN [err |-> "KeyError", coord |-> None]
    ELSE LET coord_data == gps_data[1][metadata.frame_number]
         IN  IF coord_data.k = "short" THEN Resolved(None)
             ELSE IF coord_data.k = "text" THEN [err |-> "ValueError", coord |-> None]
             ELSE Resolved(<<coord_data.v>>)

\* A faulty variant of FrameCoord: the hint is looked up before the frame's
\* own metadata.
FrameCoordHintFirst(metadata, gps_data) ==
    IF Truthy(gps_data) /\ metadata.frame_number \in DOMAIN gps_data[1]
                        /\ gps_data[1][metadata.frame_number].k = "list"
    THEN Resolved(<<gps_data[1][metadata.frame_number].v>>)
    ELSE IF metadata.gps_coords /= None THEN Resolved(metadata.gps_coords)
    ELSE Resolved(None)

\* The body of the loop of _extract_gps_coords for one frame.
FrameCoord(metadata, gps_data) ==
    IF metadata.gps_coords /= None THEN Resolved(metadata.gps_coords)
    ELSE IF ~Truthy(gps_data) THEN Resolved(None)
    ELSE IF metadata.frame_number \notin DOMAIN gps_data[1] THEN Resolved(None)
    ELSE LET coord_data == gps_data[1][metadata.frame_number]
         IN  IF coord_data.k = "short" THEN Resolved(None)
             ELSE IF coord_data.k = "text" THEN [err |-> "ValueError", coord |-> None]
             ELSE Resolved(<<coord_data.v>>)

_extract_gps_coords(frames, gps_data) ==
    LET per_frame == [i \in 1..Len(frames) |-> FrameCoord(frames[i], gps_data)]
    IN  IF \E i \in 1..Len(frames) : per_frame[i].err /= ""
        THEN [err |-> per_frame[CHOOSE i \in 1..Len(frames) :
                                   /\ per_frame[i].err /= ""
                                   /\ \A h \in 1..(i - 1) : per_frame[h].err = ""].err,
              coords |-> <<>>]
        ELSE [err |-> "", coords |-> [i \in 1..Len(frames) |-> per_frame[i].coord]]

\* A faulty variant of ScanPresentFrames: <= in place of <, the last of several
\* nearest frames wins.
RECURSIVE ScanPresentFramesLastWins(_, _, _, _, _)
ScanPresentFramesLastWins(base_coord, present_coords, j, best_match_idx, min_distance) ==
    IF j > Len(present_coords) THEN best_match_idx
    ELSE IF present_coords[j] = None
         THEN ScanPresentFramesLastWins(base_coord, present_coords, j + 1, best_match_idx, min_distance)
         ELSE LET distance == geodesic(base_coord[1], present_coords[j][1])
              IN  IF (min_distance = Inf \/ distance <= min_distance) /\ distance <= gps_tolerance
                  THEN ScanPresentFramesLastWins(base_coord, present_coords, j + 1, j, distance)
                  ELSE ScanPresentFramesLastWins(base_coord, present_coords, j + 1, best_match_idx,
                                                 min_distance)

\* The inner loop of _align_by_gps from present index j on: best_match_idx
\* (0 for None) given the best so far.
RECURSIVE ScanPresentFrames(_, _, _, _, _)
ScanPresentFrames(base_coord, present_coords, j, best_match_idx, min_distance) ==
    IF j > Len(present_coords) THEN best_match_idx
    ELSE IF present_coords[j] = None
         THEN ScanPresentFrames(base_coord, present_coords, j + 1, best_match_idx, min_distance)
         ELSE LET distance == geodesic(base_coord[1], present_coords[j][1])
              IN  IF (min_distance = Inf \/ distance < min_distance) /\ distance <= gps_tolerance
                  THEN ScanPresentFrames(base_coord, present_coords, j + 1, j, distance)
                  ELSE ScanPresentFrames(base_coord, present_coords, j + 1, best_match_idx,
                                         min_distance)

Aligned(pairs) == [err |-> "", pairs |-> pairs]

\* A faulty variant of _align_by_gps: one-to-one, a base frame whose nearest
\* present frame is in the pair of an earlier base frame gets no pair.
_align_by_gpsOneToOne(b_frames, p_frames, b_gps_data, p_gps_data) ==
    LET base_coords == _extract_gps_coords(b_frames, b_gps_data)
        present_coords == _extract_gps_coords(p_frames, p_gps_data)
        best(i) == IF base_coords.coords[i] = None THEN 0
                   ELSE ScanPresentFrames(base_coords.coords[i], present_coords.coords, 1, 0, Inf)
        paired == SelectSeq([i \in 1..Len(b_frames) |-> i],
                            LAMBDA i : best(i) /= 0 /\ \A h \in 1..(i - 1) : best(h) /= best(i))
    IN  IF base_coords.err /= "" THEN [err |-> base_coords.err, pairs |-> <<>>]
        ELSE IF present_coords.err /= "" THEN [err |-> present_coords.err, pairs |-> <<>>]
        ELSE Aligned([n \in 1..Len(paired) |->
                 [base_frame |-> b_frames[paired[n]].image,
                  present_frame |-> p_frames[best(paired[n])].image,
                  alignment_meta |->
                      [base_frame_number |-> b_frames[paired[n]].frame_number,
                       present_frame_number |-> p_frames[best(paired[n])].frame_number,
                       gps_distance_m |-> <<geodesic(base_coords.coords[paired[n]][1],
                                                     present_coords.coords[best(paired[n])][1])>>,
                       time_difference_s |-> None,
                       alignment_method |-> "gps"]]])

_align_by_gps(b_frames, p_frames, b_gps_data, p_gps_data) ==
    LET base_coords == _extract_gps_coords(b_frames, b_gps_data)
        present_coords == _extract_gps_coords(p_frames, p_gps_data)
        best(i) == IF base_coords.coords[i] = None THEN 0
                   ELSE ScanPresentFrames(base_coords.coords[i], present_coords.coords, 1, 0, Inf)
        paired == SelectSeq([i \in 1..Len(b_frames) |-> i], LAMBDA i : best(i) /= 0)
    IN  IF base_coords.err /= "" THEN [err |-> base_coords.err, pairs |-> <<>>]
        ELSE IF present_coords.err /= "" THEN [err |-> present_coords.err, pairs |-> <<>>]
        ELSE Aligned([n \in 1..Len(paired) |->
                 [base_frame |-> b_frames[paired[n]].image,
                  present_frame |-> p_frames[best(paired[n])].image,
                  alignment_meta |->
                      [base_frame_number |-> b_frames[paired[n]].frame_number,
                       present_frame_number |-> p_frames[best(paired[n])].frame_number,
                       gps_distance_m |-> <<geodesic(base_coords.coords[paired[n]][1],
                                                     present_coords.coords[best(paired[n])][1])>>,
                       time_difference_s |-> None,
                       alignment_method |-> "gps"]]])

\* A faulty variant of _align_by_temporal: < in place of <=.
_align_by_temporalStrict(b_frames, p_frames) ==
    LET min_len == MinI(Len(b_frames), Len(p_frames))
        time_diff(i) == Abs(b_frames[i].timestamp - p_frames[i].timestamp)
        kept == SelectSeq([i \in 1..min_len |-> i], LAMBDA i : time_diff(i) < temporal_tolerance)
    IN  Aligned([n \in 1..Len(kept) |->
            [base_frame |-> b_frames[kept[n]].image,
             present_frame |-> p_frames[kept[n]].image,
             alignment_meta |->
                 [base_frame_number |-> b_frames[kept[n]].frame_number,
                  present_frame_number |-> p_frames[kept[n]].frame_number,
                  gps_distance_m |-> None,
                  time_difference_s |-> <<time_diff(kept[n])>>,
                  alignment_method |-> "temporal"]]])

_align_by_temporal(b_frames, p_frames) ==
    LET min_len == MinI(Len(b_frames), Len(p_frames))
        time_diff(i) == Abs(b_frames[i].timestamp - p_frames[i].timestamp)
        kept == SelectSeq([i \in 1..min_len |-> i], LAMBDA i : time_diff(i) <= temporal_tolerance)
    IN  Aligned([n \in 1..Len(kept) |->
            [base_frame |-> b_frames[kept[n]].image,
             present_frame |-> p_frames[kept[n]].image,
             alignment_meta |->
                 [base_frame_number |-> b_frames[kept[n]].frame_number,
                  present_frame_number |-> p_frames[kept[n]].frame_number,
                  gps_distance_m |-> None,
                  time_difference_s |-> <<time_diff(kept[n])>>,
                  alignment_method |-> "temporal"]]])

\* A faulty variant of align_frames: GPS alignment when either hint is given.
align_framesEitherHint(b_frames, p_frames, b_gps_data, p_gps_data) ==
    IF Truthy(b_gps_data) \/ Truthy(p_gps_data)
    THEN _align_by_gps(b_frames, p_frames, b_gps_data, p_gps_data)
    ELSE _align_by_temporal(b_frames, p_frames)

\* if base_gps_data and present_gps_data
align_frames(b_frames, p_frames, b_gps_data, p_gps_data) ==
    IF Truthy(b_gps_data) /\ Truthy(p_gps_data)
    THEN _align_by_gps(b_frames, p_frames, b_gps_data, p_gps_data)
    ELSE _align_by_temporal(b_frames, p_frames)

\* FrameMetadata(frame_number, timestamp, gps_coords)
FrameMetadata(timestamp, gps_coords) ==
    [image |-> 0, frame_number |-> 0, timestamp |-> timestamp, gps_coords |-> gps_coords]

\* Every frame is an image of its own; frame numbers count from 0.
Numbered(frames, offset) ==
    [i \in 1..Len(frames) |-> [frames[i] EXCEPT !.image = offset + i, !.frame_number = i - 1]]

\* await self.frame_aligner.align_frames(base_frames, present_frames, ...)
AlignFrames ==
    /\ pc = "ready"
    /\ \E outcome \in {align_frames(base_frames, present_frames, base_gps_data, present_gps_data)} :
           /\ pc' = IF outcome.err = "" THEN "aligned" ELSE "raised"
           /\ aligned_pairs' = outcome.pairs
           /\ error' = outcome.err
    /\ UNCHANGED <<base_frames, present_frames, base_gps_data, present_gps_data>>
    /\ UNCHANGED <<base_detections, present_detections, changes, matched_pairs, ret, run_vars,
                   change_threshold>>

NoDetections ==
    /\ base_detections = <<>>
    /\ present_detections = <<>>
    /\ changes = <<>>
    /\ error = ""
    /\ matched_pairs = <<>>
    /\ ret = NoRet

---------------------------------------------------------------------------
(* align_frames on frames with and without coordinates under every kind    *)
(* of GPS hint (specification SpecAlign).                                  *)

MaxFrames == 2

FrameSpace ==
    {FrameMetadata(0, None), FrameMetadata(0, <<(<<0, 0>>)>>), FrameMetadata(10, <<(<<0, 11>>)>>)}

EmptyDict == [n \in {} |-> ShortList]

\* None, {}, {0: [0, 0]}, {0: [0]} and {0: [0], 1: ["north", "east"]}
HintSpace ==
    {None, <<EmptyDict>>, <<[n \in {0} |-> LatLon(<<0, 0>>)]>>, <<[n \in {0} |-> ShortList]>>,
     <<[n \in {0, 1} |-> IF n = 0 THEN ShortList ELSE TextList]>>}

InitAlign ==
    /\ \E bs \in SeqsUpTo(FrameSpace, MaxFrames), ps \in SeqsUpTo(FrameSpace, MaxFrames) :
          /\ base_frames = Numbered(bs, 0)
          /\ present_frames = Numbered(ps, Len(bs))
    /\ base_gps_data \in HintSpace
    /\ present_gps_data \in HintSpace
    /\ aligned_pairs = <<>>
    /\ pc = "ready"
    /\ NoDetections
    /\ NoRun
    /\ DefaultConfig

NextAlign == AlignFrames

SpecAlign == InitAlign /\ [][NextAlign]_vars

Supplied(gps_data) == gps_data /= None
NonEmpty(gps_data) == gps_data /= None /\ gps_data[1] /= EmptyDict

Methods == {aligned_pairs[n].alignment_meta.alignment_method : n \in 1..Len(aligned_pairs)}

\* The statement of C12 as written: align_frames uses GPS alignment iff both
\* GPS hints are non-null, and temporal alignment otherwise: every pair of the
\* output carries the method so chosen.
C12_GpsIffBothHintsNonNull ==
    pc = "aligned" =>
        \A n \in 1..Len(aligned_pairs) :
            aligned_pairs[n].alignment_meta.alignment_method =
                IF Supplied(base_gps_data) /\ Supplied(present_gps_data) THEN "gps" ELSE "temporal"

\* C12 (amended): align_frames uses GPS alignment iff both GPS hints are
\* supplied and non-empty, and temporal alignment otherwise (also when a hint
\* is an empty dict); all pairs of one output carry the same alignment_method,
\* with the distance of that method and not of the other.
C12_GpsIffBothHintsNonEmpty ==
    pc = "aligned" =>
        /\ \A n \in 1..Len(aligned_pairs) :
              aligned_pairs[n].alignment_meta.alignment_method =
                  IF NonEmpty(base_gps_data) /\ NonEmpty(present_gps_data) THEN "gps" ELSE "temporal"
        /\ Cardinality(Methods) <= 1
        /\ \A n \in 1..Len(aligned_pairs) :
              LET alignment_meta == aligned_pairs[n].alignment_meta
              IN  IF alignment_meta.alignment_method = "gps"
                  THEN alignment_meta.gps_distance_m /= None /\ alignment_meta.time_difference_s = None
                  ELSE alignment_meta.gps_distance_m = None /\ alignment_meta.time_difference_s /= None

\* Both hints are supplied, one is the empty dict, every frame has its own
\* coordinate, and the two pairs of the output are temporal.
C12_Witness ==
    /\ pc = "aligned"
    /\ base_gps_data = <<EmptyDict>>
    /\ NonEmpty(present_gps_data)
    /\ \A i \in 1..Len(base_frames) : base_frames[i].gps_coords /= None
    /\ \A i \in 1..Len(present_frames) : present_frames[i].gps_coords /= None
    /\ Len(aligned_pairs) = 2
    /\ Methods = {"temporal"}

\* Both hints are non-empty and the output is a GPS pair.
C12_WitnessGps ==
    /\ pc = "aligned"
    /\ NonEmpty(base_gps_data)
    /\ NonEmpty(present_gps_data)
    /\ Methods = {"gps"}

HasText(gps_data) == gps_data /= None /\ \E n \in DOMAIN gps_data[1] : gps_data[1][n] = TextList

\* C15: alignment does not raise on missing data.  With hints that are None,
\* empty, without an entry for a frame or with an entry of fewer than two
\* elements, and frames with or without a coordinate of their own, align_frames
\* returns; it returns an empty list when base or present is empty; it returns
\* at most one pair per base frame.  It raises only when a hint holds an entry
\* that float() rejects.
C15_NoRaiseOnMissingData ==
    pc \in {"aligned", "raised"} =>
        /\ (~HasText(base_gps_data) /\ ~HasText(present_gps_data)) => pc = "aligned"
        /\ pc = "aligned" =>
              /\ (base_frames = <<>> \/ present_frames = <<>>) => aligned_pairs = <<>>
              /\ Len(aligned_pairs) <= Len(base_frames)
              /\ \A m, n \in 1..Len(aligned_pairs) :
                    m < n => aligned_pairs[m].base_frame < aligned_pairs[n].base_frame

\* GPS alignment of frames without coordinates, one looked up in a hint that
\* has no entry for it and one whose entry has a single element: no pair and
\* no error.
C15_Witness ==
    /\ pc = "aligned"
    /\ NonEmpty(base_gps_data)
    /\ NonEmpty(present_gps_data)
    /\ Len(base_frames) = 2
    /\ present_frames /= <<>>
    /\ \A i \in 1..Len(base_frames) : base_frames[i].gps_coords = None
    /\ base_gps_data[1][0] = ShortList
    /\ 1 \notin DOMAIN base_gps_data[1]
    /\ aligned_pairs = <<>>

---------------------------------------------------------------------------
(* GPS alignment (specification SpecGps): frames at coordinates 0, 11,     *)
(* -11 and 61 metres along the road or without a coordinate, and hints     *)
(* that resolve the second base frame and the first present frame.         *)

MaxGpsFrames == 2

GpsFrameSpace ==
    {FrameMetadata(0, None)} \cup {FrameMetadata(0, <<(<<0, lon>>)>>) : lon \in {0, 11, -11, 61}}

InitGps ==
    /\ \E bs \in SeqsUpTo(GpsFrameSpace, MaxGpsFrames), ps \in SeqsUpTo(GpsFrameSpace, MaxGpsFrames) :
          /\ base_frames = Numbered(bs, 0)
          /\ present_frames = Numbered(ps, Len(bs))
    /\ base_gps_data = <<[n \in {1} |-> LatLon(<<0, 0>>)]>>
    /\ present_gps_data = <<[n \in {0} |-> LatLon(<<0, 11>>)]>>
    /\ aligned_pairs = <<>>
    /\ pc = "ready"
    /\ NoDetections
    /\ NoRun
    /\ DefaultConfig

NextGps == AlignFrames

SpecGps == InitGps /\ [][NextGps]_vars

\* The coordinate of a frame: its own, else the [lat, lon] its frame number
\* has in the hint; the empty sequence when there is neither.
StatedCoord(frame, gps_data) ==
    IF frame.gps_coords /= <<>> THEN frame.gps_coords
    ELSE IF gps_data /= <<>> /\ frame.frame_number \in DOMAIN gps_data[1]
                             /\ gps_data[1][frame.frame_number].k = "list"
         THEN <<gps_data[1][frame.frame_number].v>>
         ELSE <<>>

Located == {j \in 1..Len(present_frames) : StatedCoord(present_frames[j], present_gps_data) /= <<>>}

\* metres between base frame i and present frame j
StatedDistance(i, j) ==
    LET a == StatedCoord(base_frames[i], base_gps_data)[1]
        b == StatedCoord(present_frames[j], present_gps_data)[1]
    IN  IF a[2] >= b[2] THEN a[2] - b[2] ELSE b[2] - a[2]

PairsOfBase(i) == {n \in 1..Len(aligned_pairs) : aligned_pairs[n].base_frame = base_frames[i].image}

\* C13: in GPS alignment a base frame with a coordinate is paired with the
\* present frame of minimal distance among all present frames with a
\* coordinate, the first of them in list order when several are nearest, if
\* that distance is <= 50 m, and the pair records that distance; it has no pair
\* when no present frame is within 50 m.  A base frame without a coordinate has
\* no pair.
C13_NearestWithinTolerance ==
    pc = "aligned" =>
        \A i \in 1..Len(base_frames) :
            IF StatedCoord(base_frames[i], base_gps_data) = <<>> THEN PairsOfBase(i) = {}
            ELSE IF \A j \in Located : StatedDistance(i, j) > 50 THEN PairsOfBase(i) = {}
            ELSE \E n \in 1..Len(aligned_pairs), j \in Located :
                    /\ PairsOfBase(i) = {n}
                    /\ aligned_pairs[n].present_frame = present_frames[j].image
                    /\ \A h \in Located : StatedDistance(i, j) <= StatedDistance(i, h)
                    /\ \A h \in Located : h < j => StatedDistance(i, j) < StatedDistance(i, h)
                    /\ StatedDistance(i, j) <= 50
                    /\ aligned_pairs[n].alignment_meta.gps_distance_m = <<StatedDistance(i, j)>>
                    /\ aligned_pairs[n].alignment_meta.base_frame_number = base_frames[i].frame_number
                    /\ aligned_pairs[n].alignment_meta.present_frame_number =
                           present_frames[j].frame_number

\* Two present frames are equally near a base frame, which is paired with the
\* first; another base frame, 50 m from its nearest present frame, is paired at
\* the tolerance.
C13_Witness ==
    /\ pc = "aligned"
    /\ Len(present_frames) = 2
    /\ Located = {1, 2}
    /\ \E i \in 1..Len(base_frames) :
          /\ StatedCoord(base_frames[i], base_gps_data) /= <<>>
          /\ StatedDistance(i, 1) = StatedDistance(i, 2)
          /\ \E n \in PairsOfBase(i) : aligned_pairs[n].present_frame = present_frames[1].image
    /\ \E n \in 1..Len(aligned_pairs) : aligned_pairs[n].alignment_meta.gps_distance_m = <<50>>

\* The nearest present frame is not the first, and a base frame farther than
\* 50 m from every present frame has no pair.
C13_WitnessNearestSecond ==
    /\ pc = "aligned"
    /\ \E n \in 1..Len(aligned_pairs) :
          /\ aligned_pairs[n].alignment_meta.present_frame_number = 1
          /\ aligned_pairs[n].alignment_meta.gps_distance_m /= <<0>>
    /\ \E i \in 1..Len(base_frames) :
          /\ StatedCoord(base_frames[i], base_gps_data) /= <<>>
          /\ Located /= {}
          /\ PairsOfBase(i) = {}

---------------------------------------------------------------------------
(* Temporal alignment (specification SpecTemporal): frames at 0, 5 and     *)
(* 10 seconds without coordinates; at most one GPS hint is given.          *)

MaxTemporalFrames == 3

TemporalFrameSpace == {FrameMetadata(timestamp, None) : timestamp \in {0, 5, 10}}

InitTemporal ==
    /\ \E bs \in SeqsUpTo(TemporalFrameSpace, MaxTemporalFrames),
          ps \in SeqsUpTo(TemporalFrameSpace, MaxTemporalFrames) :
          /\ base_frames = Numbered(bs, 0)
          /\ present_frames = Numbered(ps, Len(bs))
    /\ base_gps_data = None
    /\ present_gps_data \in {None, <<[n \in {0} |-> LatLon(<<0, 0>>)]>>}
    /\ aligned_pairs = <<>>
    /\ pc = "ready"
    /\ NoDetections
    /\ NoRun
    /\ DefaultConfig

NextTemporal == AlignFrames

SpecTemporal == InitTemporal /\ [][NextTemporal]_vars

\* |base[i].timestamp - present[i].timestamp|
StatedTimeDiff(i) ==
    IF base_frames[i].timestamp >= present_frames[i].timestamp
    THEN base_frames[i].timestamp - present_frames[i].timestamp
    ELSE present_frames[i].timestamp - base_frames[i].timestamp

\* The indices below min(len(base), len(present)) within the tolerance of 5 s.
WithinTolerance ==
    {i \in 1..Len(base_frames) : i <= Len(present_frames) /\ StatedTimeDiff(i) <= 5}

\* C14: the output of temporal alignment is exactly the pairs
\* (base[i], present[i]) for the indices i below min(len(base), len(present))
\* with |base[i].timestamp - present[i].timestamp| <= 5, in increasing i, each
\* recording that difference: frames at different indices are never paired and
\* an index whose difference exceeds the tolerance has no pair.
C14_TemporalPairsByIndex ==
    pc = "aligned" =>
        /\ Len(aligned_pairs) = Cardinality(WithinTolerance)
        /\ \A n \in 1..Len(aligned_pairs) :
              \E i \in WithinTolerance :
                  /\ Cardinality({h \in WithinTolerance : h <= i}) = n
                  /\ aligned_pairs[n].base_frame = base_frames[i].image
                  /\ aligned_pairs[n].present_frame = present_frames[i].image
                  /\ aligned_pairs[n].alignment_meta.base_frame_number = base_frames[i].frame_number
                  /\ aligned_pairs[n].alignment_meta.present_frame_number =
                         present_frames[i].frame_number
                  /\ aligned_pairs[n].alignment_meta.time_difference_s = <<StatedTimeDiff(i)>>
                  /\ aligned_pairs[n].alignment_meta.alignment_method = "temporal"

\* Three base and two present frames: the first index differs by 10 s and is
\* dropped although the first base frame is as old as the second present
\* frame; the second index differs by exactly 5 s and is paired.
C14_Witness ==
    /\ pc = "aligned"
    /\ Len(base_frames) = 3
    /\ Len(present_frames) = 2
    /\ StatedTimeDiff(1) = 10
    /\ base_frames[1].timestamp = present_frames[2].timestamp
    /\ StatedTimeDiff(2) = 5
    /\ Len(aligned_pairs) = 1
    /\ aligned_pairs[1].alignment_meta.base_frame_number = 1

---------------------------------------------------------------------------
(* _calculate_iou on any two four-coordinate boxes, degenerate and         *)
(* inverted ones included (specification SpecIou).                         *)

MaxCoord == 3

BoxSpace == {<<x1, y1, x2, y2>> : x1 \in 0..MaxCoord, y1 \in 0..MaxCoord,
                                  x2 \in 0..MaxCoord, y2 \in 0..MaxCoord}

InitIou ==
    /\ \E bbox1 \in BoxSpace, bbox2 \in BoxSpace :
          /\ base_detections = WithIds(<<Det("pavement_crack", bbox1, Num(Rat(1, 2)), Num(Zero))>>, 0)
          /\ present_detections = WithIds(<<Det("pavement_crack", bbox2, Num(Rat(1, 2)), Num(Zero))>>, 1)
    /\ pc = "ready"
    /\ changes = <<>>
    /\ error = ""
    /\ matched_pairs = <<>>
    /\ ret = NoRet
    /\ NoFrames
    /\ NoRun
    /\ DefaultConfig

\* self._calculate_iou(base_det["bbox"], present_det["bbox"]), and the call
\* with the two boxes exchanged
CalculateIou ==
    /\ pc = "ready"
    /\ ret' = [ret EXCEPT !.iou = _calculate_iou(base_detections[1].bbox, present_detections[1].bbox),
                          !.iou_swapped = _calculate_iou(present_detections[1].bbox,
                                                         base_detections[1].bbox)]
    /\ pc' = "calculate_iou"
    /\ UNCHANGED <<base_detections, present_detections, changes, error, matched_pairs>>
    /\ UNCHANGED <<align_vars, run_vars, change_threshold>>

NextIou == CalculateIou

SpecIou == InitIou /\ [][NextIou]_vars

bboxA == base_detections[1].bbox
bboxB == present_detections[1].bbox

\* C17: IoU is symmetric: _calculate_iou(A, B) = _calculate_iou(B, A).
C17_IouSymmetric == pc = "calculate_iou" => ret.iou = ret.iou_swapped

\* Two boxes of different area that overlap in part.
C17_Witness ==
    /\ pc = "calculate_iou"
    /\ bboxA = <<0, 0, 2, 2>>
    /\ bboxB = <<1, 0, 2, 3>>
    /\ ret.iou = Rat(2, 5)
    /\ ret.iou_swapped = Rat(2, 5)

NonDegenerate(bbox) == bbox[1] < bbox[3] /\ bbox[2] < bbox[4]

\* C18: _calculate_iou(b, b) = 1.0 for every box b with x1 < x2 and y1 < y2.
C18_IouOfBoxWithItself ==
    (pc = "calculate_iou" /\ bboxA = bboxB /\ NonDegenerate(bboxA)) => ret.iou = One

\* A box that is not a square, compared with itself.
C18_Witness ==
    /\ pc = "calculate_iou"
    /\ bboxA = <<1, 0, 2, 3>>
    /\ bboxB = bboxA
    /\ ret.iou = One

\* The intersection rectangle is empty: its right edge is left of its left
\* edge or its bottom above its top.
EmptyIntersection ==
    \/ (IF bboxA[3] < bboxB[3] THEN bboxA[3] ELSE bboxB[3])
           < (IF bboxA[1] > bboxB[1] THEN bboxA[1] ELSE bboxB[1])
    \/ (IF bboxA[4] < bboxB[4] THEN bboxA[4] ELSE bboxB[4])
           < (IF bboxA[2] > bboxB[2] THEN bboxA[2] ELSE bboxB[2])

BoxArea(bbox) == (bbox[3] - bbox[1]) * (bbox[4] - bbox[2])

\* C19: _calculate_iou returns a value in [0, 1] for every pair of boxes, also
\* when a box has x1 >= x2 or y1 >= y2; it returns 0.0 when the intersection
\* rectangle is empty and when both boxes have area 0 (the union is 0).
C19_IouInUnitInterval ==
    pc = "calculate_iou" =>
        /\ RatGe(ret.iou, Zero)
        /\ RatLe(ret.iou, One)
        /\ EmptyIntersection => ret.iou = Zero
        /\ (BoxArea(bboxA) = 0 /\ BoxArea(bboxB) = 0) => ret.iou = Zero

\* Two disjoint boxes of area 1.
C19_Witness ==
    /\ pc = "calculate_iou"
    /\ bboxA = <<0, 0, 1, 1>>
    /\ bboxB = <<2, 2, 3, 3>>
    /\ ret.iou = Zero

\* Two coinciding boxes of zero width: the union is 0.
C19_WitnessZeroUnion ==
    /\ pc = "calculate_iou"
    /\ bboxA = <<1, 0, 1, 2>>
    /\ bboxB = bboxA
    /\ ~EmptyIntersection
    /\ ret.iou = Zero

\* A box with x1 > x2 against a box that covers it.
C19_WitnessInverted ==
    /\ pc = "calculate_iou"
    /\ bboxA = <<2, 0, 1, 2>>
    /\ bboxB = <<0, 0, 3, 3>>
    /\ ret.iou = Zero

---------------------------------------------------------------------------
(* An analysis run (AnalysisService.run_analysis, file-based storage).     *)
(* The steps are consecutive stretches of the coroutine.  What the         *)
(* detector returns depends on the content of the frame.                   *)

\* await self.detector.detect(frame): one crack, the crack at a higher
\* confidence, a detection whose area is None, or an exception.
Detect(content) ==
    IF content = "unreadable" THEN [err |-> "RuntimeError", dets |-> <<>>]
    ELSE IF content = "crack"
         THEN [err |-> "", dets |-> <<Det("pavement_crack", BoxA, Num(Rat(1, 2)), Num(Int2Rat(100)))>>]
    ELSE IF content = "worse_crack"
         THEN [err |-> "", dets |-> <<Det("pavement_crack", BoxA, Num(Rat(9, 10)), Num(Int2Rat(100)))>>]
    ELSE [err |-> "", dets |-> <<Det("pavement_crack", BoxA, Num(Rat(9, 10)), NoneVal)>>]

\* An extracted frame: extract_frames sets no gps_coords.
RunFrame(timestamp, content) ==
    [image |-> 0, frame_number |-> 0, timestamp |-> timestamp, gps_coords |-> None,
     content |-> content]

ContentOf(frames, image) == (CHOOSE frame \in Range(frames) : frame.image = image).content

\* The content of status.json written by _update_status
Status(status, progress, text) == <<[status |-> status, progress |-> progress, error |-> text]>>

\* _generate_summary(_aggregate_results(detections))
Summary(records) ==
    [total_issues |-> Len(records),
     severe_issues |-> Cardinality({j \in 1..Len(records) : records[j].severity = "severe"})]

\* One write of status.json as status_writes records it: the content, and
\* whether results.json was there when it was written.
Written(status, progress, text, results_written) ==
    [status |-> status, progress |-> progress, error |-> text, results_written |-> results_written]

\* except Exception as e: _update_status(analysis_id, "failed", 0, str(e)); raise,
\* after the statuses of `written` have been written in the try block
FailsAfter(written, text) ==
    /\ run_status' = Status("failed", 0, text)
    /\ status_writes' = status_writes \o written \o <<Written("failed", 0, text, FALSE)>>
    /\ error' = text
    /\ pc' = "failed"
    /\ UNCHANGED <<results_file, run_detections, calls, aligned_pairs>>

Fails(text) == FailsAfter(<<>>, text)

\* await self._update_status(analysis_id, "processing", 0)
RunStart ==
    /\ pc = "ready"
    /\ run_status' = Status("processing", 0, "")
    /\ status_writes' = Append(status_writes, Written("processing", 0, "", FALSE))
    /\ pc' = "started"
    /\ UNCHANGED <<error, results_file, run_detections, calls, aligned_pairs>>
    /\ UNCHANGED <<base_frames, present_frames, base_gps_data, present_gps_data>>
    /\ UNCHANGED <<base_detections, present_detections, changes, matched_pairs, ret,
                   change_threshold>>

\* Step 1: status 10, extract_frames of both videos
RunExtract ==
    /\ pc = "started"
    /\ run_status' = Status("processing", 10, "")
    /\ status_writes' = Append(status_writes, Written("processing", 10, "", FALSE))
    /\ pc' = "extracted"
    /\ UNCHANGED <<error, results_file, run_detections, calls, aligned_pairs>>
    /\ UNCHANGED <<base_frames, present_frames, base_gps_data, present_gps_data>>
    /\ UNCHANGED <<base_detections, present_detections, changes, matched_pairs, ret,
                   change_threshold>>

\* Step 2: status 30, align_frames; Step 3 begins: status 50, detections = []
RunAlign ==
    /\ pc = "extracted"
    /\ \E outcome \in {align_frames(base_frames, present_frames, base_gps_data, present_gps_data)} :
           IF outcome.err /= ""
           THEN FailsAfter(<<Written("processing", 30, "", FALSE)>>, outcome.err)
           ELSE /\ aligned_pairs' = outcome.pairs
                /\ run_status' = Status("processing", 50, "")
                /\ status_writes' = status_writes \o <<Written("processing", 30, "", FALSE),
                                                       Written("processing", 50, "", FALSE)>>
                /\ run_detections' = <<>>
                /\ pc' = "detecting"
                /\ UNCHANGED <<error, results_file, calls>>
    /\ UNCHANGED <<base_frames, present_frames, base_gps_data, present_gps_data>>
    /\ UNCHANGED <<base_detections, present_detections, changes, matched_pairs, ret,
                   change_threshold>>

\* One iteration of the loop over aligned_pairs: detect on both frames,
\* detect_changes, detections.extend(changes).
RunPair ==
    /\ pc = "detecting"
    /\ Len(calls) < Len(aligned_pairs)
    /\ LET pair == aligned_pairs[Len(calls) + 1]
           base_out == Detect(ContentOf(base_frames, pair.base_frame))
           present_out == Detect(ContentOf(present_frames, pair.present_frame))
       IN  IF base_out.err /= "" THEN Fails(base_out.err)
           ELSE IF present_out.err /= "" THEN Fails(present_out.err)
           ELSE \E outcome \in {detect_changes(WithIds(base_out.dets, 0),
                                               WithIds(present_out.dets, Len(base_out.dets)))} :
                    IF outcome.err /= "" THEN Fails(outcome.err)
                    ELSE /\ run_detections' = run_detections \o outcome.recs
                         /\ calls' = Append(calls, [base_frame |-> pair.base_frame,
                                                    present_frame |-> pair.present_frame,
                                                    changes |-> outcome.recs])
                         /\ UNCHANGED <<pc, error, run_status, results_file, aligned_pairs,
                                        status_writes>>
    /\ UNCHANGED <<base_frames, present_frames, base_gps_data, present_gps_data>>
    /\ UNCHANGED <<base_detections, present_detections, changes, matched_pairs, ret,
                   change_threshold>>

\* A faulty variant of RunSave: the results are written before the loop is over.
RunSaveEarly ==
    /\ pc = "detecting"
    /\ results_file' = <<[detections |-> run_detections,
                          summary |-> Summary(run_detections),
                          status |-> "completed"]>>
    /\ run_status' = Status("completed", 100, "")
    /\ status_writes' = status_writes \o <<Written("processing", 80, "", FALSE),
                                           Written("completed", 100, "", TRUE)>>
    /\ pc' = "completed"
    /\ UNCHANGED <<error, run_detections, calls, aligned_pairs>>
    /\ UNCHANGED <<base_frames, present_frames, base_gps_data, present_gps_data>>
    /\ UNCHANGED <<base_detections, present_detections, changes, matched_pairs, ret,
                   change_threshold>>

\* A faulty variant of RunSave: the status "completed" is written before
\* results.json.
RunSaveStatusFirst ==
    /\ pc = "detecting"
    /\ Len(calls) = Len(aligned_pairs)
    /\ results_file' = <<[detections |-> run_detections,
                          summary |-> Summary(run_detections),
                          status |-> "completed"]>>
    /\ run_status' = Status("completed", 100, "")
    /\ status_writes' = status_writes \o <<Written("processing", 80, "", FALSE),
                                           Written("completed", 100, "", FALSE)>>
    /\ pc' = "completed"
    /\ UNCHANGED <<error, run_detections, calls, aligned_pairs>>
    /\ UNCHANGED <<base_frames, present_frames, base_gps_data, present_gps_data>>
    /\ UNCHANGED <<base_detections, present_detections, changes, matched_pairs, ret,
                   change_threshold>>

\* Steps 5 to 7 after the loop: status 80, aggregate, write results.json,
\* status completed 100.
RunSave ==
    /\ pc = "detecting"
    /\ Len(calls) = Len(aligned_pairs)
    /\ results_file' = <<[detections |-> run_detections,
                          summary |-> Summary(run_detections),
                          status |-> "completed"]>>
    /\ run_status' = Status("completed", 100, "")
    /\ status_writes' = status_writes \o <<Written("processing", 80, "", FALSE),
                                           Written("completed", 100, "", TRUE)>>
    /\ pc' = "completed"
    /\ UNCHANGED <<error, run_detections, calls, aligned_pairs>>
    /\ UNCHANGED <<base_frames, present_frames, base_gps_data, present_gps_data>>
    /\ UNCHANGED <<base_detections, present_detections, changes, matched_pairs, ret,
                   change_threshold>>

MaxRunFrames == 2

RunFrameSpace ==
    {RunFrame(0, content) : content \in {"crack", "worse_crack", "corrupt", "unreadable"}}
    \cup {RunFrame(10, "crack")}

InitRun ==
    /\ \E bs \in SeqsUpTo(RunFrameSpace, MaxRunFrames), ps \in SeqsUpTo(RunFrameSpace, MaxRunFrames) :
          /\ base_frames = Numbered(bs, 0)
          /\ present_frames = Numbered(ps, Len(bs))
    /\ base_gps_data \in {None, <<[n \in {0} |-> TextList]>>}
    /\ present_gps_data = base_gps_data
    /\ aligned_pairs = <<>>
    /\ pc = "ready"
    /\ NoDetections
    /\ NoRun
    /\ DefaultConfig

NextRun == RunStart \/ RunExtract \/ RunAlign \/ RunPair \/ RunSave

SpecRun == InitRun /\ [][NextRun]_vars

RECURSIVE Concat(_)
Concat(lists) == IF lists = <<>> THEN <<>> ELSE Head(lists) \o Concat(Tail(lists))

\* Detection or change classification fails on aligned pair n.
PairFails(n) ==
    LET base_out == Detect(ContentOf(base_frames, aligned_pairs[n].base_frame))
        present_out == Detect(ContentOf(present_frames, aligned_pairs[n].present_frame))
    IN  \/ base_out.err /= ""
        \/ present_out.err /= ""
        \/ detect_changes(WithIds(base_out.dets, 0),
                          WithIds(present_out.dets, Len(base_out.dets))).err /= ""

\* C20: results.json exists only once every aligned pair has gone through
\* detection and change classification, and then holds the change records of
\* all pairs in order; when detection or change classification fails on a
\* pair, the run ends failed: no results.json, status "failed" with the error
\* text, and the exception reaches the caller.
C20_RunAtomic ==
    /\ results_file /= None =>
          /\ pc = "completed"
          /\ Len(calls) = Len(aligned_pairs)
          /\ \A n \in 1..Len(calls) :
                /\ calls[n].base_frame = aligned_pairs[n].base_frame
                /\ calls[n].present_frame = aligned_pairs[n].present_frame
          /\ results_file[1].detections = Concat([n \in 1..Len(calls) |-> calls[n].changes])
          /\ \A n \in 1..Len(aligned_pairs) : ~PairFails(n)
    /\ pc = "failed" =>
          /\ results_file = None
          /\ error /= ""
          /\ run_status = <<[status |-> "failed", progress |-> 0, error |-> error]>>
    /\ pc = "completed" => results_file /= None

\* A run of two pairs completed with the records of both.
C20_Witness ==
    /\ pc = "completed"
    /\ Len(aligned_pairs) = 2
    /\ \A n \in 1..2 : calls[n].changes /= <<>>
    /\ Len(results_file[1].detections) = 2

\* A run that failed in change classification on its second pair after the
\* first pair gave a record.
C20_WitnessFailed ==
    /\ pc = "failed"
    /\ Len(aligned_pairs) = 2
    /\ Len(calls) = 1
    /\ run_detections /= <<>>
    /\ results_file = None
    /\ error = "TypeError"

---------------------------------------------------------------------------
(* The greedy procedure (specification Spec)                               *)

StatedIou(k, i) == _calculate_iou(base_detections[k].bbox, present_detections[i].bbox)

\* The present positions no earlier base detection has claimed when base
\* position k has its turn.
Unclaimed(k) == (1..Len(present_detections)) \ ClaimedBefore(k)

\* The pair of base position k, as a set of present positions (empty or one).
PartnerOf(k) ==
    {i \in 1..Len(present_detections) :
        \E m \in 1..Len(matched_pairs) :
            /\ matched_pairs[m].base.id = base_detections[k].id
            /\ matched_pairs[m].present.id = present_detections[i].id}

\* One-to-one assignments of base to present positions whose every pair
\* reaches the threshold.
Assignments ==
    {f \in UNION {[D -> 1..Len(present_detections)] : D \in SUBSET (1..Len(base_detections))} :
        /\ \A k \in DOMAIN f : RatGe(StatedIou(k, f[k]), Rat(3, 10))
        /\ \A k, h \in DOMAIN f : k /= h => f[k] /= f[h]}

\* C21: _match_detections returns the greedy base-first matching: pairs are in
\* base order; a base detection is paired with the unclaimed present detection
\* of highest IoU, the earliest of them among equal IoUs, when that IoU is at
\* least 0.3, and is unpaired when no unclaimed present detection reaches 0.3.
\* The result need not be a largest one-to-one assignment (C21_Witness).
C21_GreedyBaseFirst ==
    pc = "matched" =>
        /\ \A m, n \in 1..Len(matched_pairs) :
              m < n => matched_pairs[m].base.id < matched_pairs[n].base.id
        /\ \A k \in 1..Len(base_detections) :
              IF \A i \in Unclaimed(k) : RatLt(StatedIou(k, i), Rat(3, 10))
              THEN PartnerOf(k) = {}
              ELSE \E i \in Unclaimed(k) :
                      /\ PartnerOf(k) = {i}
                      /\ RatGe(StatedIou(k, i), Rat(3, 10))
                      /\ \A h \in Unclaimed(k) : RatGe(StatedIou(k, i), StatedIou(k, h))
                      /\ \A h \in Unclaimed(k) : h < i => RatGt(StatedIou(k, i), StatedIou(k, h))

\* The first base detection takes the present detection that is the only
\* candidate of the second, which stays unmatched: one pair, where an
\* assignment of two pairs exists.
C21_Witness ==
    /\ pc = "matched"
    /\ Len(base_detections) = 2
    /\ Len(matched_pairs) = 1
    /\ PartnerOf(2) = {}
    /\ \E f \in Assignments : Cardinality(DOMAIN f) = 2

\* Two present detections have the same IoU with the base detection and the
\* earlier one is matched.
C21_WitnessEqualIou ==
    /\ pc = "matched"
    /\ Len(base_detections) = 1
    /\ Len(present_detections) = 2
    /\ StatedIou(1, 1) = StatedIou(1, 2)
    /\ PartnerOf(1) = {1}

---------------------------------------------------------------------------
(* Base detections competing for one present detection                     *)
(* (specification SpecContend)                                             *)

MaxContenders == 3
MaxCandidates == 2

\* Detections of one element type in three boxes.
ContendDetSpace ==
    {Det("pavement_crack", b, Num(Rat(1, 2)), Num(Int2Rat(100))) : b \in {BoxA, BoxB, BoxC}}

InitContend ==
    /\ \E bs \in SeqsUpTo(ContendDetSpace, MaxContenders),
          ps \in SeqsUpTo(ContendDetSpace, MaxCandidates) :
          /\ base_detections = WithIds(bs, 0)
          /\ present_detections = WithIds(ps, Len(bs))
    /\ pc = "ready"
    /\ changes = <<>>
    /\ error = ""
    /\ matched_pairs = <<>>
    /\ ret = NoRet
    /\ NoFrames
    /\ NoRun
    /\ DefaultConfig

NextContend == MatchDetections

SpecContend == InitContend /\ [][NextContend]_vars

\* The highest-IoU candidate of base position k among all present detections:
\* at or above the threshold, of maximal IoU, the earliest of equal IoUs.
HighestCandidate(k) ==
    {i \in 1..Len(present_detections) :
        /\ RatGe(StatedIou(k, i), Rat(3, 10))
        /\ \A h \in 1..Len(present_detections) : RatGe(StatedIou(k, i), StatedIou(k, h))
        /\ \A h \in 1..(i - 1) : RatGt(StatedIou(k, i), StatedIou(k, h))}

\* The best candidate left to base position k: unclaimed, at or above the
\* threshold, of maximal IoU among the unclaimed, the earliest of equal IoUs.
BestRemaining(k) ==
    {i \in Unclaimed(k) :
        /\ RatGe(StatedIou(k, i), Rat(3, 10))
        /\ \A h \in Unclaimed(k) : RatGe(StatedIou(k, i), StatedIou(k, h))
        /\ \A h \in Unclaimed(k) : h < i => RatGt(StatedIou(k, i), StatedIou(k, h))}

\* Base positions k1 < k2 with the same highest-IoU candidate i.
Contend(k1, k2, i) ==
    /\ k1 < k2
    /\ HighestCandidate(k1) = {i}
    /\ HighestCandidate(k2) = {i}

\* C22 as stated: of two base detections with the same highest-IoU candidate
\* at or above the threshold, the earlier is matched to it; the later is not
\* matched to it and is matched to its best remaining unclaimed candidate at
\* or above the threshold, or is unmatched.
C22_EarlierContenderWins ==
    pc = "matched" =>
        \A k1, k2 \in 1..Len(base_detections) : \A i \in 1..Len(present_detections) :
            Contend(k1, k2, i) =>
                /\ PartnerOf(k1) = {i}
                /\ i \notin PartnerOf(k2)
                /\ PartnerOf(k2) = BestRemaining(k2)

\* C22: of two base detections with the same highest-IoU candidate at or above
\* the threshold, the earlier is matched to it unless a base detection before
\* both has claimed it; the later is never matched to it and is matched to its
\* best remaining unclaimed candidate at or above the threshold, or is
\* unmatched.
C22_EarlierContenderWinsIfUnclaimed ==
    pc = "matched" =>
        \A k1, k2 \in 1..Len(base_detections) : \A i \in 1..Len(present_detections) :
            Contend(k1, k2, i) =>
                /\ i \in Unclaimed(k1) => PartnerOf(k1) = {i}
                /\ i \notin PartnerOf(k2)
                /\ PartnerOf(k2) = BestRemaining(k2)

\* Two base detections with the same highest-IoU candidate: the earlier has
\* it, the later has another present detection.
C22_Witness ==
    /\ pc = "matched"
    /\ \E k1, k2 \in 1..Len(base_detections) : \E i, h \in 1..Len(present_detections) :
          /\ Contend(k1, k2, i)
          /\ PartnerOf(k1) = {i}
          /\ h /= i
          /\ PartnerOf(k2) = {h}

\* The later contender is left unmatched although a present detection is
\* unclaimed.
C22_WitnessUnmatched ==
    /\ pc = "matched"
    /\ \E k1, k2 \in 1..Len(base_detections) : \E i \in 1..Len(present_detections) :
          /\ Contend(k1, k2, i)
          /\ PartnerOf(k1) = {i}
          /\ PartnerOf(k2) = {}
          /\ Unclaimed(k2) /= {}

---------------------------------------------------------------------------
(* Detections equal by value (specification Spec)                          *)

\* Two dicts with the same keys and values are == in Python and differ in id().
EqualByValue(det1, det2) == [det1 EXCEPT !.id = 0] = [det2 EXCEPT !.id = 0]

Overlaps(base_det, present_det) ==
    /\ ElementType(base_det) = ElementType(present_det)
    /\ RatGe(_calculate_iou(base_det.bbox, present_det.bbox), Rat(3, 10))

\* Present positions i < j hold value-equal detections, and one base detection
\* overlaps them and no other present detection.
TwinsOfOneBase(i, j) ==
    /\ i < j
    /\ EqualByValue(present_detections[i], present_detections[j])
    /\ Cardinality({k \in 1..Len(base_detections) :
                       Overlaps(base_detections[k], present_detections[i])}) = 1
    /\ \A k \in 1..Len(base_detections) : \A h \in 1..Len(present_detections) :
          Overlaps(base_detections[k], present_detections[i])
          /\ Overlaps(base_detections[k], present_detections[h])
              => h \in {i, j}

NewIssueRecordsOf(det) ==
    {n \in RecordsOf("new_issue") : changes[n].present_detection = <<det>>}

\* C23: when the present list holds two value-equal detections and the base
\* list one detection overlapping them, exactly one of the two is in a matched
\* pair and the other has exactly one new_issue record of its own, which
\* refers to that object; the matched one has no new_issue record.
C23_DistinguishedByIdentity ==
    Called =>
        /\ pc = "returned"
        /\ \A i, j \in 1..Len(present_detections) :
              TwinsOfOneBase(i, j) =>
                  /\ PresentIsMatched(present_detections[i])
                  /\ ~PresentIsMatched(present_detections[j])
                  /\ NewIssueRecordsOf(present_detections[i]) = {}
                  /\ Cardinality(NewIssueRecordsOf(present_detections[j])) = 1
                  /\ Cardinality({n \in RecordsOf("new_issue") :
                                     EqualByValue(changes[n].present_detection[1],
                                                  present_detections[j])}) = 1

\* Value-equal present detections of which the first is matched and the
\* second has its new_issue record.
C23_Witness ==
    /\ pc = "returned"
    /\ \E i, j \in 1..Len(present_detections) :
          /\ TwinsOfOneBase(i, j)
          /\ PresentIsMatched(present_detections[i])
          /\ Cardinality(NewIssueRecordsOf(present_detections[j])) = 1

---------------------------------------------------------------------------
(* A bbox that does not unpack (specification SpecStructural)              *)

MaxStructural == 2

\* Detections of two types, one of them with a bbox of only three coordinates.
StructuralDetSpace ==
    {Det("pavement_crack", BoxA, Num(Rat(1, 2)), Num(Int2Rat(100))),
     Det("pavement_crack", <<0, 0, 10>>, Num(Rat(1, 2)), Num(Int2Rat(100))),
     Det("road_sign", BoxA, Num(Rat(1, 2)), Num(Int2Rat(100)))}

InitStructural ==
    /\ \E bs \in SeqsUpTo(StructuralDetSpace, MaxStructural),
          ps \in SeqsUpTo(StructuralDetSpace, MaxStructural) :
          /\ base_detections = WithIds(bs, 0)
          /\ present_detections = WithIds(ps, Len(bs))
    /\ pc = "ready"
    /\ changes = <<>>
    /\ error = ""
    /\ matched_pairs = <<>>
    /\ ret = NoRet
    /\ NoFrames
    /\ NoRun
    /\ DefaultConfig

NextStructural == DetectChanges

SpecStructural == InitStructural /\ [][NextStructural]_vars

StructuralViolation ==
    \E det \in Range(base_detections) \cup Range(present_detections) : ~Unpacks(det.bbox)

\* C24: when a detection of either list has a bbox that is not four
\* coordinates, detect_changes raises to its caller and returns no change
\* list, not even a partial one.
C24_StructuralViolationSurfaces ==
    Called /\ StructuralViolation =>
        /\ pc = "raised"
        /\ error = "ValueError"
        /\ changes = <<>>

---------------------------------------------------------------------------
(* GPS alignment is per base frame (specification SpecGps)                 *)

\* The present frames within tolerance of base frame i.
WithinReach(i) ==
    IF StatedCoord(base_frames[i], base_gps_data) = <<>> THEN {}
    ELSE {j \in Located : StatedDistance(i, j) <= 50}

PairsOfPresent(j) ==
    {n \in 1..Len(aligned_pairs) : aligned_pairs[n].present_frame = present_frames[j].image}

\* C25: GPS alignment is nearest-present-per-base: a base frame is in one
\* aligned pair when a present frame is within tolerance of it and in none
\* otherwise, whatever pairs the other base frames have; the pairs are in
\* base-frame order; a present frame is in the pair of every base frame it is
\* the one nearest present frame of, so it may be in several pairs.
C25_NearestPresentPerBase ==
    pc = "aligned" =>
        /\ \A i \in 1..Len(base_frames) :
              Cardinality(PairsOfBase(i)) = IF WithinReach(i) = {} THEN 0 ELSE 1
        /\ \A m, n \in 1..Len(aligned_pairs) :
              m < n => aligned_pairs[m].base_frame < aligned_pairs[n].base_frame
        /\ \A j \in 1..Len(present_frames) :
              {i \in 1..Len(base_frames) :
                  /\ j \in WithinReach(i)
                  /\ \A h \in WithinReach(i) \ {j} : StatedDistance(i, j) < StatedDistance(i, h)}
              \subseteq {i \in 1..Len(base_frames) : PairsOfBase(i) \cap PairsOfPresent(j) /= {}}

\* One present frame is in the pairs of two base frames.
C25_Witness ==
    /\ pc = "aligned"
    /\ Len(aligned_pairs) = 2
    /\ aligned_pairs[1].base_frame /= aligned_pairs[2].base_frame
    /\ \E j \in 1..Len(present_frames) : PairsOfPresent(j) = {1, 2}

---------------------------------------------------------------------------
(* Where a frame's coordinate comes from (specification SpecGps)           *)

HasOwnCoord(frame) == frame.gps_coords /= <<>>

HintEntry(frame, gps_data) ==
    IF gps_data /= <<>> /\ frame.frame_number \in DOMAIN gps_data[1]
    THEN <<gps_data[1][frame.frame_number]>>
    ELSE <<>>

\* The longitude a frame is compared by: of its own metadata when it has one,
\* otherwise of the hint entry at its frame number; none when there is neither.
Longitude(frame, gps_data) ==
    IF HasOwnCoord(frame) THEN <<frame.gps_coords[1][2]>>
    ELSE IF HintEntry(frame, gps_data) /= <<>> /\ HintEntry(frame, gps_data)[1].k = "list"
         THEN <<HintEntry(frame, gps_data)[1].v[2]>>
         ELSE <<>>

BaseOfPair(n) == CHOOSE i \in 1..Len(base_frames) : base_frames[i].image = aligned_pairs[n].base_frame

PresentOfPair(n) ==
    CHOOSE j \in 1..Len(present_frames) : present_frames[j].image = aligned_pairs[n].present_frame

\* C26: in GPS alignment the frames of every pair have a coordinate, and the
\* distance of the pair is the distance between the coordinates taken from
\* each frame's own metadata when it has one and otherwise from the hint at
\* its frame_number; a base frame with neither is in no pair and a present
\* frame with neither is in no pair.
C26_CoordFromMetadataElseHint ==
    pc = "aligned" =>
        /\ \A n \in 1..Len(aligned_pairs) :
              /\ Longitude(base_frames[BaseOfPair(n)], base_gps_data) /= <<>>
              /\ Longitude(present_frames[PresentOfPair(n)], present_gps_data) /= <<>>
              /\ aligned_pairs[n].alignment_meta.gps_distance_m =
                    <<Abs(Longitude(base_frames[BaseOfPair(n)], base_gps_data)[1]
                          - Longitude(present_frames[PresentOfPair(n)], present_gps_data)[1])>>
        /\ \A i \in 1..Len(base_frames) :
              Longitude(base_frames[i], base_gps_data) = <<>> => PairsOfBase(i) = {}
        /\ \A j \in 1..Len(present_frames) :
              Longitude(present_frames[j], present_gps_data) = <<>> => PairsOfPresent(j) = {}

\* A base frame located by the hint is paired with a present frame whose own
\* coordinate differs from the hint entry at its frame number, at the distance
\* to the own coordinate.
C26_Witness ==
    /\ pc = "aligned"
    /\ \E n \in 1..Len(aligned_pairs) :
          /\ ~HasOwnCoord(base_frames[BaseOfPair(n)])
          /\ HasOwnCoord(present_frames[PresentOfPair(n)])
          /\ HintEntry(present_frames[PresentOfPair(n)], present_gps_data) /= <<>>
          /\ HintEntry(present_frames[PresentOfPair(n)], present_gps_data)[1].v
                 /= present_frames[PresentOfPair(n)].gps_coords[1]

\* A base frame without a coordinate is skipped beside one that is paired,
\* and a present frame without a coordinate is passed over for a later one.
C26_WitnessSkipped ==
    /\ pc = "aligned"
    /\ Len(base_frames) = 2
    /\ Len(present_frames) = 2
    /\ Longitude(base_frames[1], base_gps_data) = <<>>
    /\ PairsOfBase(2) /= {}
    /\ Longitude(present_frames[2], present_gps_data) = <<>>
    /\ PairsOfPresent(1) /= {}

---------------------------------------------------------------------------
(* Order of the returned records (specification SpecTypes)                 *)

\* C27: in the list detect_changes returns, every fixed record comes after
\* every new_issue and every deteriorated record, of whatever element type,
\* and the new_issue records of an element type come before its deteriorated
\* records.  The records of one type are not kept together (C27_Witness).
C27_FixedLastNewBeforeDeteriorated ==
    Called =>
        /\ pc = "returned"
        /\ \A a \in RecordsOf("fixed") :
              \A b \in RecordsOf("new_issue") \cup RecordsOf("deteriorated") : b < a
        /\ \A a \in RecordsOf("new_issue") : \A b \in RecordsOf("deteriorated") :
              changes[a].element_type = changes[b].element_type => a < b

\* A record of another type lies between the deteriorated record and the
\* fixed record of one type, and a deteriorated record comes before a
\* new_issue record of another type.
C27_Witness ==
    /\ pc = "returned"
    /\ \E a \in RecordsOf("deteriorated"), b \in RecordsOf("new_issue"), c \in RecordsOf("fixed") :
          /\ a < b
          /\ b < c
          /\ changes[a].element_type = changes[c].element_type
          /\ changes[b].element_type /= changes[a].element_type

\* One type has a new_issue record and a deteriorated record, in that order,
\* and a fixed record follows.
C27_WitnessWithinType ==
    /\ pc = "returned"
    /\ \E a \in RecordsOf("new_issue"), b \in RecordsOf("deteriorated"), c \in RecordsOf("fixed") :
          /\ changes[a].element_type = changes[b].element_type
          /\ a < b
          /\ b < c

---------------------------------------------------------------------------
(* Boxes without extent (specification SpecDegenerate)                     *)

MaxDegenerate == 2

\* The dict the detector builds for a box: area = width * height.
DetOfBox(bbox) ==
    Det("pavement_crack", bbox, Num(Rat(1, 2)),
        Num(Int2Rat(MaxI(0, bbox[3] - bbox[1]) * MaxI(0, bbox[4] - bbox[2]))))

\* BoxA, a box of zero width and a box of zero height, both inside BoxA.
DegenerateDetSpace == {DetOfBox(b) : b \in {BoxA, <<3, 3, 3, 8>>, <<0, 5, 10, 5>>}}

InitDegenerate ==
    /\ \E bs \in SeqsUpTo(DegenerateDetSpace, MaxDegenerate),
          ps \in SeqsUpTo(DegenerateDetSpace, MaxDegenerate) :
          /\ base_detections = WithIds(bs, 0)
          /\ present_detections = WithIds(ps, Len(bs))
    /\ pc = "ready"
    /\ changes = <<>>
    /\ error = ""
    /\ matched_pairs = <<>>
    /\ ret = NoRet
    /\ NoFrames
    /\ NoRun
    /\ DefaultConfig

NextDegenerate == DetectChanges

SpecDegenerate == InitDegenerate /\ [][NextDegenerate]_vars

ZeroExtent(bbox) == bbox[3] = bbox[1] \/ bbox[4] = bbox[2]

\* The boxes of the two lists and every box with corners on the grid.
BoxesCompared ==
    {det.bbox : det \in Range(base_detections) \cup Range(present_detections)} \cup BoxSpace

\* C28: a detection whose bbox has zero width or zero height has IoU 0 with
\* every box, itself included, in either argument order; in the present list
\* it has its new_issue record and in the base list its fixed record, and no
\* deteriorated record refers to it, whatever the other list holds.
C28_ZeroExtentNeverMatched ==
    Called =>
        /\ pc = "returned"
        /\ \A det \in Range(base_detections) \cup Range(present_detections) :
              ZeroExtent(det.bbox) =>
                  \A bbox \in BoxesCompared :
                      /\ _calculate_iou(det.bbox, bbox) = Zero
                      /\ _calculate_iou(bbox, det.bbox) = Zero
        /\ \A i \in 1..Len(present_detections) :
              ZeroExtent(present_detections[i].bbox) =>
                  /\ Cardinality(NewIssueRecordsOf(present_detections[i])) = 1
                  /\ \A j \in RecordsOf("deteriorated") :
                        changes[j].present_detection /= <<present_detections[i]>>
        /\ \A k \in 1..Len(base_detections) :
              ZeroExtent(base_detections[k].bbox) =>
                  /\ Cardinality({j \in RecordsOf("fixed") :
                                     changes[j].base_detection = <<base_detections[k]>>}) = 1
                  /\ \A j \in RecordsOf("deteriorated") :
                        changes[j].base_detection /= <<base_detections[k]>>

\* Both lists hold a detection with the same box of zero width: one is
\* reported as new_issue and the other as fixed.
C28_Witness ==
    /\ pc = "returned"
    /\ \E j \in RecordsOf("new_issue"), n \in RecordsOf("fixed") :
          /\ changes[j].bbox = changes[n].bbox
          /\ ZeroExtent(changes[j].bbox)

---------------------------------------------------------------------------
(* The score of a deteriorated record under a configured change_threshold  *)
(* (specification SpecThreshold)                                           *)

\* Values of models.change_detection.change_threshold: negative, zero, the
\* default and two other positive ones.
ThresholdValues == {Rat(-1, 10), Zero, Rat(1, 10), Rat(3, 10), One}

\* One detection per list, in the same box: confidences and areas on both
\* sides of the two thresholds, and values that are coerced to 0.0.
ThresholdDetSpace ==
    {Det("pavement_crack", BoxA, c, a) :
        c \in {Num(Zero), Num(Rat(1, 2)), Num(Rat(4, 5)), Num(Rat(9, 10))},
        a \in {Num(Int2Rat(100)), Num(Int2Rat(130)), Num(Int2Rat(131)), NoneVal}}

InitThreshold ==
    /\ \E b \in ThresholdDetSpace, p \in ThresholdDetSpace :
          /\ base_detections = WithIds(<<b>>, 0)
          /\ present_detections = WithIds(<<p>>, 1)
    /\ change_threshold \in ThresholdValues
    /\ pc = "ready"
    /\ changes = <<>>
    /\ error = ""
    /\ matched_pairs = <<>>
    /\ ret = NoRet
    /\ NoFrames
    /\ NoRun

NextThreshold == DetectChanges

SpecThreshold == InitThreshold /\ [][NextThreshold]_vars

\* C29: when change_threshold >= 0, every deteriorated record of the returned
\* list has a deterioration_score > 0, and a score > 0.12 when
\* change_threshold is the default 0.3.
C29_DeterioratedScorePositive ==
    pc = "returned" /\ RatGe(change_threshold, Zero) =>
        \A j \in RecordsOf("deteriorated") :
            /\ RatGt(changes[j].deterioration_score[1], Zero)
            /\ change_threshold = Rat(3, 10) =>
                  RatGt(changes[j].deterioration_score[1], Rat(12, 100))

\* Under threshold 0 a record with a score no greater than 0.12, and it is
\* positive: the confidence rose by less than 0.2 and the area did not grow.
C29_Witness ==
    /\ pc = "returned"
    /\ change_threshold = Zero
    /\ \E j \in RecordsOf("deteriorated") :
          /\ RatGt(changes[j].deterioration_score[1], Zero)
          /\ RatLe(changes[j].deterioration_score[1], Rat(12, 100))

\* Under the default threshold a record accepted for its area alone, with a
\* score between 0.12 and 0.13.
C29_WitnessDefault ==
    /\ pc = "returned"
    /\ change_threshold = Rat(3, 10)
    /\ \E j \in RecordsOf("deteriorated") :
          /\ RatGt(changes[j].deterioration_score[1], Rat(12, 100))
          /\ RatLt(changes[j].deterioration_score[1], Rat(13, 100))

\* Under a negative threshold a deteriorated record has score 0.
C29_WitnessNegativeThreshold ==
    /\ pc = "returned"
    /\ RatLt(change_threshold, Zero)
    /\ \E j \in RecordsOf("deteriorated") : changes[j].deterioration_score[1] = Zero

---------------------------------------------------------------------------
(* The statuses written during a run (specification SpecRun)               *)

ProgressSteps == <<0, 10, 30, 50, 80>>

C30_WitnessFailedAligning ==
    /\ pc = "failed"
    /\ Len(status_writes) = 4
    /\ status_writes[3].progress = 30
    /\ status_writes[4].status = "failed"

\* A run that failed on a pair: 0, 10, 30, 50, then "failed".
C30_WitnessFailedDetecting ==
    /\ pc = "failed"
    /\ Len(status_writes) = 5
    /\ status_writes[4].progress = 50
    /\ status_writes[5].status = "failed"

====
